---- MODULE Spec2Model ----
(***************************************************************************)
(* Upstream selection engine of the multi-upstream addon                   *)
(* (mitmproxy/addons/multi_upstream.py): the proxy registry built by       *)
(* _load_configuration_from_dir, the rule matcher, the session affinity    *)
(* cache and the flow-facing hooks.                                        *)
(*                                                                         *)
(* Text that the code formats or searches (client addresses, hosts, host   *)
(* patterns, connection ids) is a sequence of one-character strings, so    *)
(* that formatting and regular-expression search are computed and not      *)
(* assumed.  Names, schemes and credentials are plain strings; for the     *)
(* optional ones the code only ever tests truthiness, so None and the      *)
(* empty string are both written "" (0 for an optional port).              *)
(***************************************************************************)
EXTENDS Integers, Sequences, FiniteSets, TLC

VARIABLES
    proxy_configs,      \* MultiUpstreamAddon.proxy_configs: sequence of ProxyConfig
    default_proxy,      \* MultiUpstreamAddon.default_proxy: ProxyConfig or None
    config_loaded,      \* MultiUpstreamAddon.config_loaded
    session_affinity,   \* MultiUpstreamAddon.session_affinity: connection id -> ProxyConfig
    flows,              \* the flow objects the proxy hands to the hooks
    ret,                \* what the last call returned
    chosen,             \* per connection id, the upstream _select_proxy last returned
    last_load,          \* how the last load that read a configuration file ended
    layer,              \* the Socks5UpstreamProxy object: buf, state, username, password
    target,             \* Socks5UpstreamProxy.conn.address: (host, port) to tunnel to
    tunnel_state,       \* the tunnel layer's state: where deliveries are routed
    sent,               \* the payloads of commands.SendData to the tunnel connection
    received,           \* the bytes handed to the upper layer by receive_data
    outcome,            \* what the last receive_handshake_data call returned
    wire,               \* the bytes the SOCKS5 server has still to deliver
    entry,              \* the layer and its output when the current message began
    pending,            \* the bytes delivered since then
    completions,        \* how many deliveries reported (done=True, error=None)
    failed,             \* whether a delivery has reported an error
    matching            \* a _matches_rule call: its rule, its flow, what it returned

addon_vars == <<proxy_configs, default_proxy, config_loaded, session_affinity, flows, ret,
                chosen, last_load>>

tunnel_vars == <<layer, target, tunnel_state, sent, received, outcome, wire, entry,
                 pending, completions, failed>>

vars == <<proxy_configs, default_proxy, config_loaded, session_affinity, flows, ret,
          chosen, last_load, layer, target, tunnel_state, sent, received, outcome,
          wire, entry, pending, completions, failed, matching>>

\* Python's None where a record or a text could stand.
None == [none |-> TRUE]

-----------------------------------------------------------------------------
(* Bounds of the model.                                                    *)

\* Largest weight a configured upstream carries (weights are 1..MaxWeight).
MaxWeight == 3

-----------------------------------------------------------------------------
(* ProxyRule and ProxyConfig.                                              *)

ProxyRule(type, pattern, port, value) ==
    [type |-> type, pattern |-> pattern, port |-> port, value |-> value]

ProxyConfig(name, url, weight, rules, username, password) ==
    [name |-> name, url |-> url, weight |-> weight, rules |-> rules,
     username |-> username, password |-> password]

-----------------------------------------------------------------------------
(* Rule matcher.                                                           *)

\* re.escape(pattern).replace(r'\*', '.*'): one token per pattern character,
\* ".*" for a wildcard and the character itself, taken literally, otherwise.
CompilePattern(pattern) ==
    [i \in 1..Len(pattern) |-> IF pattern[i] = "*" THEN ".*" ELSE pattern[i]]

\* The suffix of s that starts at position i.
Drop(s, i) == SubSeq(s, i, Len(s))

\* Whether the compiled pattern matches a prefix of text.  "." matches every
\* character but the line feed.
RECURSIVE MatchHere(_, _)
MatchHere(regex, text) ==
    IF regex = <<>> THEN TRUE
    ELSE IF Head(regex) = ".*"
         THEN \E k \in 0..Len(text) :
                 /\ \A j \in 1..k : text[j] # "\n"
                 /\ MatchHere(Tail(regex), Drop(text, k + 1))
         ELSE /\ text # <<>>
              /\ Head(text) = Head(regex)
              /\ MatchHere(Tail(regex), Tail(text))

\* re.search(pattern, host) is not None: a match starting anywhere.
ReSearch(regex, text) ==
    \E start \in 1..(Len(text) + 1) : MatchHere(regex, Drop(text, start))

\* Python truthiness of an optional text.
Truthy(x) == x # None /\ x # <<>>

\* getattr(flow.request, 'pretty_host', None) or getattr(flow.request, 'host', None)
RequestHost(flow) == IF Truthy(flow.pretty_host) THEN flow.pretty_host ELSE flow.host

_matches_rule(flow, rule) ==
    CASE rule.type = "host_pattern" ->
            /\ rule.pattern # <<>>
            /\ RequestHost(flow) # None
            /\ ReSearch(CompilePattern(rule.pattern), RequestHost(flow))
      [] rule.type = "port" -> rule.port # 0 /\ flow.port = rule.port
      [] rule.type = "default" -> TRUE
      [] OTHER -> FALSE

\* _proxy_matches_rules that asks every rule to match.
_proxy_matches_rules_every(proxy_config, flow) ==
    \A i \in 1..Len(proxy_config.rules) : _matches_rule(flow, proxy_config.rules[i])

\* for rule in proxy_config.rules: if self._matches_rule(flow, rule): return True
_proxy_matches_rules(proxy_config, flow) ==
    \E i \in 1..Len(proxy_config.rules) : _matches_rule(flow, proxy_config.rules[i])

-----------------------------------------------------------------------------
(* Connection identity.                                                    *)

Digit(d) == CASE d = 0 -> "0" [] d = 1 -> "1" [] d = 2 -> "2" [] d = 3 -> "3"
              [] d = 4 -> "4" [] d = 5 -> "5" [] d = 6 -> "6" [] d = 7 -> "7"
              [] d = 8 -> "8" [] d = 9 -> "9"

\* str(n) of a non-negative integer.
RECURSIVE Decimal(_)
Decimal(n) == IF n < 10 THEN <<Digit(n)>> ELSE Decimal(n \div 10) \o <<Digit(n % 10)>>

\* str(x) of an optional text inside an f-string.
Text(x) == IF x = None THEN <<"N", "o", "n", "e">> ELSE x

_get_connection_id(flow) ==
    IF flow.websocket
    THEN flow.client \o <<":">> \o Text(flow.pretty_host)
    ELSE flow.client \o <<":">> \o Text(flow.pretty_host) \o <<":">> \o Decimal(flow.port)

-----------------------------------------------------------------------------
(* Configuration directories and files, as _load_configuration_from_dir    *)
(* reads them.                                                             *)

\* A port that is None: getattr(flow.request, 'port', None) of a request
\* without a port attribute, and urlparse(url).port of a url that names no
\* port.  It equals no port, and unlike port 0 it is not a number.
NoPort == -1

\* urllib.parse.urlparse(url): the parts the addon reads.  A missing scheme
\* or hostname is "", a missing port is NoPort; a url may name port 0.
Url(scheme, username, password, hostname, port) ==
    [scheme |-> scheme, username |-> username, password |-> password,
     hostname |-> hostname, port |-> port]

\* One entry of a rules list.  has_type is whether the 'type' key is there.
RuleData(has_type, type, pattern, port, value) ==
    [has_type |-> has_type, type |-> type, pattern |-> pattern, port |-> port,
     value |-> value]

\* One entry of the proxies list.  has_name is whether the required 'name'
\* key is there; weight is <<>> when the 'weight' key is missing.
ProxyData(has_name, name, url, weight, rules, username, password) ==
    [has_name |-> has_name, name |-> name, url |-> url, weight |-> weight,
     rules |-> rules, username |-> username, password |-> password]

PatternExample == <<"*", ".", "x">>          \* stands for *.example.com
HostApi == <<"a", ".", "x">>                 \* stands for api.example.com
HostOther == <<"o", ".", "y">>               \* stands for other.org

DataProxyA ==
    ProxyData(TRUE, "proxy-a", Url("http", "", "", "pa", 8080), <<1>>,
              <<RuleData(TRUE, "host_pattern", PatternExample, 0, "")>>, "", "")
DataProxyB ==
    ProxyData(TRUE, "proxy-b", Url("socks5", "ub", "pb", "pb", NoPort), <<MaxWeight>>,
              <<RuleData(TRUE, "host_pattern", PatternExample, 0, "")>>, "", "")
DataProxyC ==
    ProxyData(TRUE, "proxy-c", Url("https", "", "", "pc", NoPort), <<>>,
              <<RuleData(TRUE, "default", <<>>, 0, "true")>>, "uc", "pc")
DataProxyD ==
    ProxyData(TRUE, "proxy-d", Url("http", "ud", "pd", "pd", 3128), <<2>>,
              <<RuleData(TRUE, "port", <<>>, 8443, ""),
                RuleData(TRUE, "port", <<>>, 443, "")>>, "", "")
DataProxyE ==
    ProxyData(TRUE, "proxy-e", Url("http", "", "", "pe", 8080), <<>>, <<>>, "", "")
\* A second default, listed after the first: a port rule, then a default
\* rule; the URL carries a username only, and no port.
DataProxyF ==
    ProxyData(TRUE, "proxy-f", Url("http", "uf", "", "pf", NoPort), <<>>,
              <<RuleData(TRUE, "port", <<>>, 8443, ""),
                RuleData(TRUE, "default", <<>>, 0, "true")>>, "xf", "yf")
\* An upstream whose url has neither scheme nor host ("not-a-valid-url").
DataProxyG ==
    ProxyData(TRUE, "proxy-g", Url("", "", "", "", NoPort), <<>>,
              <<RuleData(TRUE, "host_pattern", HostOther, 0, "")>>, "", "")
\* An http upstream whose url has no port and a username only; the explicit
\* fields are both set.
DataProxyH ==
    ProxyData(TRUE, "proxy-h", Url("http", "uh", "", "ph", NoPort), <<>>,
              <<RuleData(TRUE, "port", <<>>, 80, "")>>, "xh", "yh")
\* A socks5 upstream with a username and no password, in the url and in the
\* explicit fields.
DataProxyI ==
    ProxyData(TRUE, "proxy-i", Url("socks5", "ui", "", "pi", 1081), <<>>,
              <<RuleData(TRUE, "port", <<>>, 443, "")>>, "xi", "")
\* An https upstream whose url has no port.
DataProxyJ ==
    ProxyData(TRUE, "proxy-j", Url("https", "", "", "pj", NoPort), <<>>,
              <<RuleData(TRUE, "port", <<>>, 443, "")>>, "", "")
\* An https upstream whose url carries a username and a password; the
\* explicit fields are both set too.
DataProxyK ==
    ProxyData(TRUE, "proxy-k", Url("https", "uk", "pk", "pk", 8443), <<>>,
              <<RuleData(TRUE, "port", <<>>, 443, "")>>, "xk", "yk")
\* An http upstream whose url names port 0 ("http://pz:0").
DataProxyZ ==
    ProxyData(TRUE, "proxy-z", Url("http", "", "", "pz", 0), <<>>,
              <<RuleData(TRUE, "port", <<>>, 80, "")>>, "", "")
\* An upstream whose url has a host and a port and no scheme ("//py:8080").
DataProxyY ==
    ProxyData(TRUE, "proxy-y", Url("", "", "", "py", 8080), <<>>,
              <<RuleData(TRUE, "port", <<>>, 80, "")>>, "", "")
\* An upstream whose url has a scheme and a port and no host ("http://:8080").
DataProxyX ==
    ProxyData(TRUE, "proxy-x", Url("http", "", "", "", 8080), <<>>,
              <<RuleData(TRUE, "port", <<>>, 443, "")>>, "", "")
DataNoName ==
    ProxyData(FALSE, "", Url("http", "", "", "px", 8080), <<>>, <<>>, "", "")

\* What json.load / yaml.safe_load makes of a file: it raises, or it yields a
\* mapping with or without a 'proxies' key.
FileUnparsable == [parses |-> FALSE, has_proxies |-> FALSE, proxies |-> <<>>]
FileNoProxies == [parses |-> TRUE, has_proxies |-> FALSE, proxies |-> <<>>]
FileOf(proxies) == [parses |-> TRUE, has_proxies |-> TRUE, proxies |-> proxies]

FileScenario == FileOf(<<DataProxyA, DataProxyB, DataProxyC>>)
FileAlternative == FileOf(<<DataProxyD, DataProxyE>>)
FileBrokenEntry == FileOf(<<DataProxyA, DataNoName, DataProxyC>>)
FileRouting ==
    FileOf(<<DataProxyG, DataProxyH, DataProxyI, DataProxyB, DataProxyJ, DataProxyK>>)
FileAddresses ==
    FileOf(<<DataProxyZ, DataProxyY, DataProxyX, DataProxyH, DataProxyK, DataProxyB>>)

\* A directory: whether it exists, whether it is a directory, and its
\* *.yaml, *.yml and *.json files in name order.
Directory(exists, is_dir, files) == [exists |-> exists, is_dir |-> is_dir, files |-> files]
NamedFile(name, content) == [name |-> name, content |-> content]

Directories ==
    { Directory(FALSE, FALSE, <<>>),
      Directory(TRUE, FALSE, <<>>),
      Directory(TRUE, TRUE, <<>>),
      Directory(TRUE, TRUE, <<NamedFile("a.json", FileNoProxies),
                              NamedFile("proxies.yaml", FileScenario)>>),
      Directory(TRUE, TRUE, <<NamedFile("alt.yaml", FileAlternative)>>),
      Directory(TRUE, TRUE, <<NamedFile("proxies.yaml", FileNoProxies)>>),
      Directory(TRUE, TRUE, <<NamedFile("proxies.yaml", FileUnparsable)>>),
      Directory(TRUE, TRUE, <<NamedFile("proxies.yaml", FileBrokenEntry)>>) }

\* config_files.sort(key=lambda x: (x.name != 'proxies.yaml', x.name)); config_files[0]
FirstConfigFile(files) ==
    IF \E i \in 1..Len(files) : files[i].name = "proxies.yaml"
    THEN files[CHOOSE i \in 1..Len(files) : files[i].name = "proxies.yaml"]
    ELSE files[1]

\* The ProxyRule and ProxyConfig built from one entry of the proxies list.
RuleOf(rule_data) ==
    ProxyRule(rule_data.type, rule_data.pattern, rule_data.port, rule_data.value)

ConfigOf(proxy_data) ==
    ProxyConfig(proxy_data.name, proxy_data.url,
                IF proxy_data.weight = <<>> THEN 1 ELSE proxy_data.weight[1],
                [i \in 1..Len(proxy_data.rules) |-> RuleOf(proxy_data.rules[i])],
                proxy_data.username, proxy_data.password)

\* Whether building the entry raises (a required key is missing).
EntryRaises(proxy_data) ==
    \/ \E i \in 1..Len(proxy_data.rules) : ~proxy_data.rules[i].has_type
    \/ ~proxy_data.has_name

\* The loop over config['proxies'] that keeps the first default it meets.
RECURSIVE LoadProxies_first_default(_, _, _, _)
LoadProxies_first_default(proxies, i, configs, default) ==
    IF i > Len(proxies)
    THEN [configs |-> configs, default |-> default, raised |-> FALSE]
    ELSE IF EntryRaises(proxies[i])
    THEN [configs |-> configs, default |-> default, raised |-> TRUE]
    ELSE LET proxy_config == ConfigOf(proxies[i])
         IN IF \E r \in 1..Len(proxy_config.rules) : proxy_config.rules[r].type = "default"
            THEN LoadProxies_first_default(proxies, i + 1, configs,
                                           IF default = None THEN proxy_config ELSE default)
            ELSE LoadProxies_first_default(proxies, i + 1, Append(configs, proxy_config),
                                           default)

\* The loop over config['proxies'], from entry i on: the candidates and the
\* default built so far, and whether an entry raised.
RECURSIVE LoadProxies(_, _, _, _)
LoadProxies(proxies, i, configs, default) ==
    IF i > Len(proxies)
    THEN [configs |-> configs, default |-> default, raised |-> FALSE]
    ELSE IF EntryRaises(proxies[i])
    THEN [configs |-> configs, default |-> default, raised |-> TRUE]
    ELSE LET proxy_config == ConfigOf(proxies[i])
         IN IF \E r \in 1..Len(proxy_config.rules) : proxy_config.rules[r].type = "default"
            THEN LoadProxies(proxies, i + 1, configs, proxy_config)
            ELSE LoadProxies(proxies, i + 1, Append(configs, proxy_config), default)

\* The registry _load_configuration_from_dir leaves behind, given the one it
\* found: candidates, default and the loaded flag.  `ended` is how the call
\* ended: "warning" when it found no file to read (no directory, not a
\* directory, no configuration file), "error" when the file could not be
\* parsed, had no 'proxies' key or had an entry that raised, "loaded" when it
\* reached config_loaded = True.
_load_configuration_from_dir(config_dir, configs, default, loaded) ==
    IF ~config_dir.exists \/ ~config_dir.is_dir
    THEN [configs |-> configs, default |-> default, loaded |-> loaded,
          ended |-> "warning"]
    ELSE IF config_dir.files = <<>>
    THEN [configs |-> <<>>, default |-> None, loaded |-> loaded, ended |-> "warning"]
    ELSE LET config == FirstConfigFile(config_dir.files).content
         IN IF ~config.parses \/ ~config.has_proxies
            THEN [configs |-> <<>>, default |-> None, loaded |-> loaded,
                  ended |-> "error"]
            ELSE LET built == LoadProxies(config.proxies, 1, <<>>, None)
                 IN IF built.raised
                    THEN [configs |-> built.configs, default |-> built.default,
                          loaded |-> loaded, ended |-> "error"]
                    ELSE [configs |-> built.configs, default |-> built.default,
                          loaded |-> TRUE, ended |-> "loaded"]

-----------------------------------------------------------------------------
(* Selection engine.                                                       *)

\* dict without key k, and dict with key k set to v.
Without(dict, k) == [x \in DOMAIN dict \ {k} |-> dict[x]]
With_discarding(dict, k, v) == dict
With(dict, k, v) == [x \in DOMAIN dict \cup {k} |-> IF x = k THEN v ELSE dict[x]]
EmptyDict == [x \in {} |-> None]

\* A probability, as the fraction num / den.
Fraction(num, den) == [num |-> num, den |-> den]
Certain == Fraction(1, 1)

\* random.choices that ignores the weights: every entry is as likely as any
\* other.
WeightedChoices_uniform(population, weights) ==
    {[choice |-> population[i], probability |-> Fraction(1, Len(population))] :
        i \in 1..Len(population)}

\* random.choices(population, weights=weights)[0]: the entries that can be
\* drawn, each with its probability.  random.choices accumulates the relative
\* weights and draws entry i with probability weights[i] over their sum; the
\* weights are fractions of one denominator, so that is the numerator of
\* entry i over the sum of the numerators.
WeightedChoices(population, weights) ==
    LET cum_weights[i \in 0..Len(weights)] ==
            IF i = 0 THEN 0 ELSE cum_weights[i - 1] + weights[i].num
    IN {[choice |-> population[i],
         probability |-> Fraction(weights[i].num, cum_weights[Len(weights)])] :
           i \in {j \in 1..Len(population) : weights[j].num > 0}}

\* The proxies of proxy_configs that match the flow, in order.
MatchingProxies(configs, flow) ==
    LET Matches(proxy_config) == _proxy_matches_rules(proxy_config, flow)
    IN SelectSeq(configs, Matches)

\* total_weight = sum(proxy.weight for proxy in matching_proxies)
RECURSIVE total_weight(_)
total_weight(proxies) ==
    IF proxies = <<>> THEN 0 ELSE Head(proxies).weight + total_weight(Tail(proxies))

\* weights = [proxy.weight / total_weight for proxy in matching_proxies], the
\* relative weights handed to random.choices, as fractions num / den.
SelectionWeights(configs, flow) ==
    LET matching_proxies == MatchingProxies(configs, flow)
    IN [i \in 1..Len(matching_proxies) |->
           Fraction(matching_proxies[i].weight, total_weight(matching_proxies))]

\* Whether the session affinity check of _select_proxy returns the cached
\* upstream: the connection id is cached and the cached proxy matches the flow.
AffinityNeverHit(cache, flow) == FALSE

AffinityHit(cache, flow) ==
    /\ _get_connection_id(flow) \in DOMAIN cache
    /\ _proxy_matches_rules(cache[_get_connection_id(flow)], flow)

\* What a call of _select_proxy can do: the upstream returned, the cache
\* left behind and the probability of that outcome.
Selection(selected, cache, probability) ==
    [selected |-> selected, cache |-> cache, probability |-> probability]

\* _select_proxy past the affinity check, on the cache without the flow's
\* entry: the possible outcomes.
ReselectDefaultFirst(configs, default, cache, flow) ==
    LET connection_id == _get_connection_id(flow)
        matching_proxies == MatchingProxies(configs, flow)
    IN IF default # None
       THEN {Selection(default, With(cache, connection_id, default), Certain)}
       ELSE IF matching_proxies = <<>>
       THEN {Selection(None, cache, Certain)}
       ELSE {Selection(d.choice, With(cache, connection_id, d.choice), d.probability) :
                d \in WeightedChoices(matching_proxies, SelectionWeights(configs, flow))}

Reselect(configs, default, cache, flow) ==
    LET connection_id == _get_connection_id(flow)
        matching_proxies == MatchingProxies(configs, flow)
    IN IF matching_proxies = <<>>
       THEN IF default # None
            THEN {Selection(default, With(cache, connection_id, default), Certain)}
            ELSE {Selection(None, cache, Certain)}
       ELSE IF Len(matching_proxies) > 1
       THEN {Selection(d.choice, With(cache, connection_id, d.choice), d.probability) :
                d \in WeightedChoices(matching_proxies, SelectionWeights(configs, flow))}
       ELSE {Selection(matching_proxies[1],
                       With(cache, connection_id, matching_proxies[1]), Certain)}

\* _select_proxy(flow) on the given registry and cache: the possible
\* outcomes.
_select_proxy_unguarded(configs, default, loaded, cache, flow) ==
    IF AffinityHit(cache, flow)
    THEN {Selection(cache[_get_connection_id(flow)], cache, Certain)}
    ELSE Reselect(configs, default, Without(cache, _get_connection_id(flow)), flow)

_select_proxy(configs, default, loaded, cache, flow) ==
    IF ~loaded
    THEN {Selection(None, cache, Certain)}
    ELSE IF AffinityHit(cache, flow)
    THEN {Selection(cache[_get_connection_id(flow)], cache, Certain)}
    ELSE Reselect(configs, default, Without(cache, _get_connection_id(flow)), flow)

\* The (username, password) pair resolved for an upstream: the URL's when it
\* carries both, else the explicit fields when both are set, else None.
Credentials(proxy_config) ==
    IF proxy_config.url.username # "" /\ proxy_config.url.password # ""
    THEN [username |-> proxy_config.url.username, password |-> proxy_config.url.password]
    ELSE IF proxy_config.username # "" /\ proxy_config.password # ""
    THEN [username |-> proxy_config.username, password |-> proxy_config.password]
    ELSE None

\* The port proxy_address resolves, parsed_url.port or <the scheme's default>:
\* `or` takes the default for a port that is None and for port 0 alike.
ResolvedPort(url) ==
    IF url.port # NoPort /\ url.port # 0 THEN url.port
    ELSE IF url.scheme = "socks5" THEN 1080
    ELSE IF url.scheme = "https" THEN 443
    ELSE 80

\* proxy_address that returns an address whatever the url holds.
ResolveAddress_unchecked(selected_proxy, flow) ==
    IF selected_proxy = None
    THEN [address |-> None, socks5 |-> flow.socks5]
    ELSE LET url == selected_proxy.url
             credentials == Credentials(selected_proxy)
         IN [address |-> [scheme |-> url.scheme, host |-> url.hostname,
                          port |-> ResolvedPort(url)],
             socks5 |-> IF url.scheme = "socks5" /\ credentials # None
                        THEN credentials ELSE flow.socks5]

\* The part of proxy_address after the selection: the address returned and
\* the socks5 credentials left in flow.metadata.
ResolveAddress(selected_proxy, flow) ==
    IF selected_proxy = None
    THEN [address |-> None, socks5 |-> flow.socks5]
    ELSE LET url == selected_proxy.url
             port == ResolvedPort(url)
             credentials == Credentials(selected_proxy)
         IN IF url.scheme = "" \/ url.hostname = "" \/ port = 0
            THEN [address |-> None, socks5 |-> flow.socks5]
            ELSE [address |-> [scheme |-> url.scheme, host |-> url.hostname, port |-> port],
                  socks5 |-> IF url.scheme = "socks5" /\ credentials # None
                             THEN credentials ELSE flow.socks5]

\* proxy_address(flow): the possible triples of returned address, selection
\* made and cache left behind, with flow.metadata's socks5 credentials and the
\* probability of the selection.
proxy_address(configs, default, loaded, cache, flow) ==
    IF ~loaded
    THEN {[address |-> None, selected |-> None, cache |-> cache, socks5 |-> flow.socks5,
           probability |-> Certain]}
    ELSE {[address |-> r[2].address, selected |-> r[1].selected,
           cache |-> r[1].cache, socks5 |-> r[2].socks5,
           probability |-> r[1].probability] :
             r \in {<<s, ResolveAddress(s.selected, flow)>> :
                       s \in _select_proxy(configs, default, loaded, cache, flow)}}

\* The printable ASCII characters in code order, from the space (32) on (the
\* grave accent, code 96, is spelled out).
Printable ==
    << " ", "!", "\"", "#", "$", "%", "&", "'", "(", ")", "*", "+", ",", "-", ".", "/",
       "0", "1", "2", "3", "4", "5", "6", "7", "8", "9", ":", ";", "<", "=", ">", "?",
       "@", "A", "B", "C", "D", "E", "F", "G", "H", "I", "J", "K", "L", "M", "N", "O",
       "P", "Q", "R", "S", "T", "U", "V", "W", "X", "Y", "Z", "[", "\\", "]", "^", "_",
       "(grave)", "a", "b", "c", "d", "e", "f", "g", "h", "i", "j", "k", "l", "m", "n", "o",
       "p", "q", "r", "s", "t", "u", "v", "w", "x", "y", "z", "{", "|", "}", "~" >>

\* ord(c) of a printable ASCII character.
Ord(c) == 31 + CHOOSE i \in 1..Len(Printable) : Printable[i] = c

\* text.encode('ascii') and text.encode('utf-8') of printable ASCII text.
Encode(text) == [i \in 1..Len(text) |-> Ord(text[i])]

\* The characters of the usernames and passwords the configurations use.
Characters(text) ==
    CASE text = "ub" -> <<"u", "b">> [] text = "pb" -> <<"p", "b">>
      [] text = "uc" -> <<"u", "c">> [] text = "pc" -> <<"p", "c">>
      [] text = "ud" -> <<"u", "d">> [] text = "pd" -> <<"p", "d">>
      [] text = "uk" -> <<"u", "k">> [] text = "pk" -> <<"p", "k">>
      [] text = "xk" -> <<"x", "k">> [] text = "yk" -> <<"y", "k">>
      [] text = "uf" -> <<"u", "f">> [] text = "xf" -> <<"x", "f">>
      [] text = "yf" -> <<"y", "f">> [] text = "uh" -> <<"u", "h">>
      [] text = "xh" -> <<"x", "h">> [] text = "yh" -> <<"y", "h">>
      [] text = "ui" -> <<"u", "i">> [] text = "xi" -> <<"x", "i">>

\* The base64 alphabet.
Base64Alphabet ==
    << "A", "B", "C", "D", "E", "F", "G", "H", "I", "J", "K", "L", "M", "N", "O", "P",
       "Q", "R", "S", "T", "U", "V", "W", "X", "Y", "Z", "a", "b", "c", "d", "e", "f",
       "g", "h", "i", "j", "k", "l", "m", "n", "o", "p", "q", "r", "s", "t", "u", "v",
       "w", "x", "y", "z", "0", "1", "2", "3", "4", "5", "6", "7", "8", "9", "+", "/" >>

\* base64.b64encode(data): 3 bytes become 4 characters, the last group is
\* padded with "=".
RECURSIVE b64encode(_)
b64encode(data) ==
    IF data = <<>> THEN <<>>
    ELSE LET n == data[1] * 65536
                    + (IF Len(data) >= 2 THEN data[2] * 256 ELSE 0)
                    + (IF Len(data) >= 3 THEN data[3] ELSE 0)
         IN << Base64Alphabet[(n \div 262144) + 1],
               Base64Alphabet[((n \div 4096) % 64) + 1],
               IF Len(data) >= 2 THEN Base64Alphabet[((n \div 64) % 64) + 1] ELSE "=",
               IF Len(data) >= 3 THEN Base64Alphabet[(n % 64) + 1] ELSE "=" >>
            \o b64encode(Drop(data, 4))

\* b"Basic " + base64.b64encode(always_bytes(f"{username}:{password}"))
BasicAuthHeader(credentials) ==
    <<"B", "a", "s", "i", "c", " ">>
        \o b64encode(Encode(Characters(credentials.username) \o <<":">>
                               \o Characters(credentials.password)))

\* _add_http_auth(flow, proxy_config): the Proxy-Authorization header left on
\* the request, "Basic " + base64(username:password) when a pair was resolved.
_add_http_auth(flow, proxy_config) ==
    IF Credentials(proxy_config) # None
    THEN BasicAuthHeader(Credentials(proxy_config))
    ELSE flow.proxy_authorization

-----------------------------------------------------------------------------
(* Flows.                                                                  *)

\* The request carries no Proxy-Authorization header: the empty byte string
\* stands for the missing key.
NoHeader == <<>>

\* A flow as the proxy first hands it to the addon: nothing routed yet.
\* multi is isinstance(flow.client_conn.proxy_mode, MultiUpstreamMode), via is
\* flow.server_conn.via, proxy_authorization the request's Proxy-Authorization
\* header, socks5 the socks5_username/socks5_password pair of flow.metadata.
Flow(client, host, port, multi) ==
    [client |-> client, pretty_host |-> host, host |-> host, port |-> port,
     multi |-> multi, websocket |-> FALSE, via |-> None,
     proxy_authorization |-> NoHeader, socks5 |-> None, stage |-> "new"]

ClientAddress == <<"c">>

FlowInputs ==
    << Flow(ClientAddress, HostApi, 80, TRUE),
       Flow(ClientAddress, HostApi, 443, TRUE),
       Flow(ClientAddress, HostOther, 80, TRUE),
       Flow(ClientAddress, HostApi, 80, FALSE) >>

\* The flow objects of one run.
FlowIds == {1, 2}

\* The record of the last call: the operation, the flow it was for, the
\* upstream _select_proxy returned last, the address proxy_address returned
\* and the probability with which the call's selections came out as they did.
Return(op, f, selected, address) ==
    [op |-> op, flow |-> f, selected |-> selected, address |-> address,
     probability |-> Certain]

\* The same record for a call whose selections had the given probability.
Drawn(return, probability) == [return EXCEPT !.probability = probability]

\* chosen after _select_proxy returned `selected` for the flow.
Remember(history, flow, selected) ==
    IF selected = None
    THEN Without(history, _get_connection_id(flow))
    ELSE With(history, _get_connection_id(flow), selected)

-----------------------------------------------------------------------------
(* SOCKS5 upstream proxy layer (proxy/layers/http/_socks5_upstream_proxy.py).*)
(* Bytes are integers 0..255 and messages are sequences of bytes.          *)

SOCKS5_VERSION == 5
SOCKS5_METHOD_NO_AUTHENTICATION_REQUIRED == 0
SOCKS5_METHOD_USER_PASSWORD_AUTHENTICATION == 2
SOCKS5_METHOD_NO_ACCEPTABLE_METHODS == 255

SOCKS5_CMD_CONNECT == 1
SOCKS5_ATYP_IPV4_ADDRESS == 1
SOCKS5_ATYP_DOMAINNAME == 3
SOCKS5_ATYP_IPV6_ADDRESS == 4

SOCKS5_REP_SUCCEEDED == 0
SOCKS5_REP_GENERAL_FAILURE == 1
SOCKS5_REP_CONNECTION_NOT_ALLOWED == 2
SOCKS5_REP_NETWORK_UNREACHABLE == 3
SOCKS5_REP_HOST_UNREACHABLE == 4
SOCKS5_REP_CONNECTION_REFUSED == 5
SOCKS5_REP_TTL_EXPIRED == 6
SOCKS5_REP_COMMAND_NOT_SUPPORTED == 7
SOCKS5_REP_ADDRESS_TYPE_NOT_SUPPORTED == 8

\* The value of a decimal digit character, -1 for any other character.
DecimalValue(c) ==
    IF Ord(c) >= Ord("0") /\ Ord(c) <= Ord("9") THEN Ord(c) - Ord("0") ELSE -1

\* The value of a hexadecimal digit character, -1 for any other character.
HexValue(c) ==
    IF DecimalValue(c) >= 0 THEN DecimalValue(c)
    ELSE IF Ord(c) >= Ord("a") /\ Ord(c) <= Ord("f") THEN Ord(c) - Ord("a") + 10
    ELSE IF Ord(c) >= Ord("A") /\ Ord(c) <= Ord("F") THEN Ord(c) - Ord("A") + 10
    ELSE -1

\* socket.inet_pton(socket.AF_INET, src) from position i on: the 4 address
\* bytes, or None where it raises OSError.  done holds the octets finished,
\* cur the octet being read and saw_digit whether it has a digit yet.
RECURSIVE Pton4Scan(_, _, _, _, _)
Pton4Scan(src, i, done, cur, saw_digit) ==
    IF i > Len(src)
    THEN IF Len(done) = 3 /\ saw_digit THEN done \o <<cur>> ELSE None
    ELSE IF DecimalValue(src[i]) >= 0
    THEN IF \/ saw_digit /\ cur = 0
            \/ cur * 10 + DecimalValue(src[i]) > 255
            \/ ~saw_digit /\ Len(done) + 1 > 4
         THEN None
         ELSE Pton4Scan(src, i + 1, done, cur * 10 + DecimalValue(src[i]), TRUE)
    ELSE IF src[i] = "." /\ saw_digit
    THEN IF Len(done) + 1 = 4 THEN None
         ELSE Pton4Scan(src, i + 1, done \o <<cur>>, 0, FALSE)
    ELSE None

inet_pton4(src) == Pton4Scan(src, 1, <<>>, 0, FALSE)

Zeros(n) == [i \in 1..n |-> 0]

\* The end of inet_pton(AF_INET6): the last group is stored and the '::' at
\* colonp (-1: none) is replaced by zeros.
Pton6Finish(tp, colonp, xdigits_seen, val) ==
    IF xdigits_seen > 0 /\ Len(tp) + 2 > 16 THEN None
    ELSE LET full == IF xdigits_seen > 0 THEN tp \o <<val \div 256, val % 256>> ELSE tp
         IN IF colonp >= 0
            THEN IF Len(full) = 16 THEN None
                 ELSE SubSeq(full, 1, colonp) \o Zeros(16 - Len(full))
                         \o SubSeq(full, colonp + 1, Len(full))
            ELSE IF Len(full) # 16 THEN None ELSE full

\* socket.inet_pton(socket.AF_INET6, src) from position i on: the 16 address
\* bytes, or None where it raises OSError.  tp holds the bytes written,
\* curtok is where the current group began.
RECURSIVE Pton6Scan(_, _, _, _, _, _, _)
Pton6Scan(src, i, tp, colonp, xdigits_seen, val, curtok) ==
    IF i > Len(src) THEN Pton6Finish(tp, colonp, xdigits_seen, val)
    ELSE IF HexValue(src[i]) >= 0
    THEN IF xdigits_seen = 4 THEN None
         ELSE Pton6Scan(src, i + 1, tp, colonp, xdigits_seen + 1,
                        val * 16 + HexValue(src[i]), curtok)
    ELSE IF src[i] = ":"
    THEN IF xdigits_seen = 0
         THEN IF colonp >= 0 THEN None
              ELSE Pton6Scan(src, i + 1, tp, Len(tp), 0, val, i + 1)
         ELSE IF i + 1 > Len(src) \/ Len(tp) + 2 > 16 THEN None
         ELSE Pton6Scan(src, i + 1, tp \o <<val \div 256, val % 256>>, colonp, 0, 0, i + 1)
    ELSE IF /\ src[i] = "."
            /\ Len(tp) + 4 <= 16
            /\ inet_pton4(SubSeq(src, curtok, Len(src))) # None
    THEN Pton6Finish(tp \o inet_pton4(SubSeq(src, curtok, Len(src))), colonp, 0, 0)
    ELSE None

inet_pton6(src) ==
    IF src = <<>> THEN None
    ELSE IF src[1] = ":"
    THEN IF Len(src) < 2 \/ src[2] # ":" THEN None
         ELSE Pton6Scan(src, 2, <<>>, -1, 0, 0, 2)
    ELSE Pton6Scan(src, 1, <<>>, -1, 0, 0, 1)

\* The port packed little-endian.
PackPort_little_endian(port) == <<port % 256, port \div 256>>

\* struct.pack('!H', port): the port as 2 bytes big-endian.
PackPort(port) == <<port \div 256, port % 256>>

\* The address part of the connect request: the IPv4 literal, else the IPv6
\* literal, else the domain name with its length byte.
ConnectAddress(host) ==
    IF inet_pton4(host) # None
    THEN <<SOCKS5_ATYP_IPV4_ADDRESS>> \o inet_pton4(host)
    ELSE IF inet_pton6(host) # None
    THEN <<SOCKS5_ATYP_IPV6_ADDRESS>> \o inet_pton6(host)
    ELSE <<SOCKS5_ATYP_DOMAINNAME, Len(Encode(host))>> \o Encode(host)

\* _send_connect_request: the request sent for conn.address = (host, port).
_send_connect_request(address) ==
    <<SOCKS5_VERSION, SOCKS5_CMD_CONNECT, 0>>
        \o ConnectAddress(address.host) \o PackPort(address.port)

\* start_handshake that offers username/password as soon as a username is set.
start_handshake_username_only(username, password) ==
    IF Truthy(username)
    THEN <<SOCKS5_VERSION, 2, SOCKS5_METHOD_NO_AUTHENTICATION_REQUIRED,
           SOCKS5_METHOD_USER_PASSWORD_AUTHENTICATION>>
    ELSE <<SOCKS5_VERSION, 1, SOCKS5_METHOD_NO_AUTHENTICATION_REQUIRED>>

\* start_handshake: the greeting sent for the layer's credentials.
start_handshake(username, password) ==
    IF Truthy(username) /\ Truthy(password)
    THEN <<SOCKS5_VERSION, 2, SOCKS5_METHOD_NO_AUTHENTICATION_REQUIRED,
           SOCKS5_METHOD_USER_PASSWORD_AUTHENTICATION>>
    ELSE <<SOCKS5_VERSION, 1, SOCKS5_METHOD_NO_AUTHENTICATION_REQUIRED>>

\* The subnegotiation request without the password's length byte.
_send_authentication_unframed(username, password) ==
    <<1, Len(Encode(username))>> \o Encode(username) \o Encode(password)

\* _send_authentication: the username/password subnegotiation request.
_send_authentication(username, password) ==
    <<1, Len(Encode(username))>> \o Encode(username)
        \o <<Len(Encode(password))>> \o Encode(password)

\* What receive_handshake_data returns, (done, error), or the exception that
\* escapes it.  An error message is its text with the values formatted into
\* it: the number in `value` (-1: none) and the text in `detail`.
Message(text, value, detail) == [text |-> text, value |-> value, detail |-> detail]
Result(done, error) == [done |-> done, error |-> error, raised |-> ""]
NeedMoreData == Result(FALSE, None)
Raises(exception) == [done |-> FALSE, error |-> None, raised |-> exception]

\* The effect of one handler call: the layer afterwards, the payloads sent to
\* the tunnel connection, the bytes passed to receive_data and the result.
Effect(self, send, forward, result) ==
    [layer |-> self, send |-> send, forward |-> forward, result |-> result]

\* Socks5UpstreamProxy.__init__.
Socks5UpstreamProxy(username, password) ==
    [buf |-> <<>>, state |-> "greet", username |-> username, password |-> password]

\* human.format_address(self.tunnel_connection.address) of the upstream.
TunnelAddress == "pb:1080"

_get_socks5_error_message(reply_code) ==
    CASE reply_code = SOCKS5_REP_SUCCEEDED -> Message("Succeeded", -1, "")
      [] reply_code = SOCKS5_REP_GENERAL_FAILURE -> Message("General failure", -1, "")
      [] reply_code = SOCKS5_REP_CONNECTION_NOT_ALLOWED ->
            Message("Connection not allowed", -1, "")
      [] reply_code = SOCKS5_REP_NETWORK_UNREACHABLE ->
            Message("Network unreachable", -1, "")
      [] reply_code = SOCKS5_REP_HOST_UNREACHABLE -> Message("Host unreachable", -1, "")
      [] reply_code = SOCKS5_REP_CONNECTION_REFUSED ->
            Message("Connection refused", -1, "")
      [] reply_code = SOCKS5_REP_TTL_EXPIRED -> Message("TTL expired", -1, "")
      [] reply_code = SOCKS5_REP_COMMAND_NOT_SUPPORTED ->
            Message("Command not supported", -1, "")
      [] reply_code = SOCKS5_REP_ADDRESS_TYPE_NOT_SUPPORTED ->
            Message("Address type not supported", -1, "")
      [] OTHER -> Message("Unknown error code: {reply_code}", reply_code, "")

\* The error of a refused connect: the proxy's address and the table's text.
RefusedError(reply_code) ==
    Message("SOCKS5 proxy {proxyaddr} refused connection: {error_msg}",
            _get_socks5_error_message(reply_code).value,
            _get_socks5_error_message(reply_code).text)

\* _handle_greeting that throws the buffer away when the version is wrong, so
\* that the bytes that follow are read as a new greeting response.
_handle_greeting_discarding(self, address) ==
    IF Len(self.buf) < 2 THEN Effect(self, <<>>, <<>>, NeedMoreData)
    ELSE IF self.buf[1] # SOCKS5_VERSION
    THEN Effect([self EXCEPT !.buf = <<>>], <<>>, <<>>,
                Result(FALSE, Message("Invalid SOCKS version. Expected 5, got {buf[0]}",
                                      self.buf[1], "")))
    ELSE LET method == self.buf[2]
         IN IF method = SOCKS5_METHOD_NO_ACCEPTABLE_METHODS
            THEN Effect(self, <<>>, <<>>,
                   Result(FALSE, Message(
                     "SOCKS5 server requires authentication, but we don't support it",
                     -1, "")))
            ELSE IF method = SOCKS5_METHOD_USER_PASSWORD_AUTHENTICATION
            THEN IF ~Truthy(self.username) \/ ~Truthy(self.password)
                 THEN Effect(self, <<>>, <<>>,
                        Result(FALSE, Message(
                          "SOCKS5 server requires authentication, but no credentials provided",
                          -1, "")))
                 ELSE Effect([self EXCEPT !.buf = Drop(@, 3), !.state = "auth"],
                             <<_send_authentication(self.username, self.password)>>,
                             <<>>, NeedMoreData)
            ELSE IF method = SOCKS5_METHOD_NO_AUTHENTICATION_REQUIRED
            THEN Effect([self EXCEPT !.buf = Drop(@, 3), !.state = "connect"],
                        <<_send_connect_request(address)>>, <<>>, NeedMoreData)
            ELSE Effect(self, <<>>, <<>>,
                   Result(FALSE, Message(
                     "Unsupported SOCKS5 authentication method: {method}", method, "")))

\* bytearray([0x01, len(username_bytes)]) and extend([len(password_bytes)])
\* of _send_authentication raise ValueError for a length above 255, after the
\* greeting response was removed from the buffer and before anything is sent.
_handle_greeting(self, address) ==
    IF Len(self.buf) < 2 THEN Effect(self, <<>>, <<>>, NeedMoreData)
    ELSE IF self.buf[1] # SOCKS5_VERSION
    THEN Effect(self, <<>>, <<>>,
                Result(FALSE, Message("Invalid SOCKS version. Expected 5, got {buf[0]}",
                                      self.buf[1], "")))
    ELSE LET method == self.buf[2]
         IN IF method = SOCKS5_METHOD_NO_ACCEPTABLE_METHODS
            THEN Effect(self, <<>>, <<>>,
                   Result(FALSE, Message(
                     "SOCKS5 server requires authentication, but we don't support it",
                     -1, "")))
            ELSE IF method = SOCKS5_METHOD_USER_PASSWORD_AUTHENTICATION
            THEN IF ~Truthy(self.username) \/ ~Truthy(self.password)
                 THEN Effect(self, <<>>, <<>>,
                        Result(FALSE, Message(
                          "SOCKS5 server requires authentication, but no credentials provided",
                          -1, "")))
                 ELSE IF \/ Len(Encode(self.username)) > 255
                         \/ Len(Encode(self.password)) > 255
                 THEN Effect([self EXCEPT !.buf = Drop(@, 3)], <<>>, <<>>,
                             Raises("ValueError"))
                 ELSE Effect([self EXCEPT !.buf = Drop(@, 3), !.state = "auth"],
                             <<_send_authentication(self.username, self.password)>>,
                             <<>>, NeedMoreData)
            ELSE IF method = SOCKS5_METHOD_NO_AUTHENTICATION_REQUIRED
            THEN Effect([self EXCEPT !.buf = Drop(@, 3), !.state = "connect"],
                        <<_send_connect_request(address)>>, <<>>, NeedMoreData)
            ELSE Effect(self, <<>>, <<>>,
                   Result(FALSE, Message(
                     "Unsupported SOCKS5 authentication method: {method}", method, "")))

\* _handle_authentication whose status error reports the version byte.
_handle_authentication_reporting_version(self, address) ==
    IF Len(self.buf) < 2 THEN Effect(self, <<>>, <<>>, NeedMoreData)
    ELSE IF self.buf[1] # 1
    THEN Effect(self, <<>>, <<>>,
           Result(FALSE, Message(
             "Invalid authentication subnegotiation version. Expected 0x01, got {buf[0]}",
             self.buf[1], "")))
    ELSE IF self.buf[2] # 0
    THEN Effect(self, <<>>, <<>>,
           Result(FALSE, Message("SOCKS5 authentication failed with status: {status}",
                                 self.buf[1], "")))
    ELSE Effect([self EXCEPT !.buf = Drop(@, 3), !.state = "connect"],
                <<_send_connect_request(address)>>, <<>>, NeedMoreData)

_handle_authentication(self, address) ==
    IF Len(self.buf) < 2 THEN Effect(self, <<>>, <<>>, NeedMoreData)
    ELSE IF self.buf[1] # 1
    THEN Effect(self, <<>>, <<>>,
           Result(FALSE, Message(
             "Invalid authentication subnegotiation version. Expected 0x01, got {buf[0]}",
             self.buf[1], "")))
    ELSE IF self.buf[2] # 0
    THEN Effect(self, <<>>, <<>>,
           Result(FALSE, Message("SOCKS5 authentication failed with status: {status}",
                                 self.buf[2], "")))
    ELSE Effect([self EXCEPT !.buf = Drop(@, 3), !.state = "connect"],
                <<_send_connect_request(address)>>, <<>>, NeedMoreData)

\* Python indexes from 0: buf[k] of the code is self.buf[k + 1] here, and
\* reading buf[k] of a shorter buffer raises IndexError.
\* A connect-response handler that starts over with the greeting while the
\* response is short.
_handle_connect_response_restarting(self) ==
    IF Len(self.buf) < 4
    THEN Effect([self EXCEPT !.state = "greet"], <<>>, <<>>, NeedMoreData)
    ELSE Effect([self EXCEPT !.buf = <<>>], <<>>, Drop(self.buf, 5), Result(TRUE, None))

_handle_connect_response(self) ==
    IF Len(self.buf) < 4 THEN Effect(self, <<>>, <<>>, NeedMoreData)
    ELSE IF self.buf[1] # SOCKS5_VERSION
    THEN Effect(self, <<>>, <<>>,
           Result(FALSE, Message(
             "Invalid SOCKS version in response. Expected 5, got {buf[0]}",
             self.buf[1], "")))
    ELSE IF self.buf[2] # SOCKS5_CMD_CONNECT
    THEN Effect(self, <<>>, <<>>,
           Result(FALSE, Message(
             "Unexpected SOCKS5 command in response. Expected 1, got {buf[1]}",
             self.buf[2], "")))
    ELSE IF self.buf[3] # 0
    THEN Effect(self, <<>>, <<>>,
           Result(FALSE, Message("Invalid reserved byte in SOCKS5 response: {buf[2]}",
                                 self.buf[3], "")))
    ELSE IF self.buf[4] # SOCKS5_REP_SUCCEEDED
    THEN Effect(self, <<>>, <<>>, Result(FALSE, RefusedError(self.buf[4])))
    ELSE IF Len(self.buf) < 5 THEN Effect(self, <<>>, <<>>, Raises("IndexError"))
    ELSE LET atyp == self.buf[5]
         IN IF atyp \notin {SOCKS5_ATYP_IPV4_ADDRESS, SOCKS5_ATYP_IPV6_ADDRESS,
                            SOCKS5_ATYP_DOMAINNAME}
            THEN Effect(self, <<>>, <<>>,
                   Result(FALSE, Message(
                     "Unsupported address type in SOCKS5 response: {atyp}", atyp, "")))
            ELSE IF atyp = SOCKS5_ATYP_DOMAINNAME /\ Len(self.buf) < 6
            THEN Effect(self, <<>>, <<>>, Raises("IndexError"))
            ELSE LET addr_len == IF atyp = SOCKS5_ATYP_IPV4_ADDRESS THEN 4
                                 ELSE IF atyp = SOCKS5_ATYP_IPV6_ADDRESS THEN 16
                                 ELSE self.buf[6]
                     total_len == 4 + 1 + addr_len + 2
                                    + IF atyp = SOCKS5_ATYP_DOMAINNAME THEN 1 ELSE 0
                 IN IF Len(self.buf) < total_len
                    THEN Effect(self, <<>>, <<>>, NeedMoreData)
                    ELSE Effect([self EXCEPT !.buf = <<>>], <<>>,
                                Drop(self.buf, total_len + 1), Result(TRUE, None))

\* A dispatch that empties the buffer after every handler call.
HandleState_emptying(self, address) ==
    LET e == CASE self.state = "greet" -> _handle_greeting(self, address)
               [] self.state = "auth" -> _handle_authentication(self, address)
               [] OTHER -> _handle_connect_response(self)
    IN [e EXCEPT !.layer.buf = <<>>]

\* The handler receive_handshake_data dispatches to for the layer's state.
HandleState(self, address) ==
    CASE self.state = "greet" -> _handle_greeting(self, address)
      [] self.state = "auth" -> _handle_authentication(self, address)
      [] self.state = "connect" -> _handle_connect_response(self)
      [] OTHER -> Effect(self, <<>>, <<>>,
                         Result(FALSE, Message("Unknown SOCKS5 state: {state}", -1,
                                               self.state)))

\* receive_handshake_data that keeps only the last delivery in the buffer.
receive_handshake_data_overwriting(self, address, data) ==
    HandleState([self EXCEPT !.buf = data], address)

receive_handshake_data(self, address, data) ==
    HandleState([self EXCEPT !.buf = @ \o data], address)

-----------------------------------------------------------------------------
(* The SOCKS5 server's side of a handshake: the bytes it delivers.         *)

GreetingResponses == {<<5, 0>>, <<5, 2>>, <<5, 255>>, <<4, 0>>, <<5, 1>>}
AuthResponses == {<<1, 0>>, <<1, 1>>, <<1, 255>>, <<5, 0>>}

\* Connect responses in the order version, reply code, reserved byte, address
\* type, address, port.
Response(reply_code, atyp, address, port) ==
    <<SOCKS5_VERSION, reply_code, 0, atyp>> \o address \o PackPort(port)

BoundDomain == Encode(<<"p", "r", "o", "x", "y", ".", "t", "e", "s", "t">>)

SuccessIPv4 == Response(SOCKS5_REP_SUCCEEDED, SOCKS5_ATYP_IPV4_ADDRESS, <<10, 0, 0, 5>>, 443)
SuccessIPv6 ==
    Response(SOCKS5_REP_SUCCEEDED, SOCKS5_ATYP_IPV6_ADDRESS, Zeros(15) \o <<1>>, 80)
SuccessDomain ==
    Response(SOCKS5_REP_SUCCEEDED, SOCKS5_ATYP_DOMAINNAME,
             <<Len(BoundDomain)>> \o BoundDomain, 80)

WellFormedSuccess == {SuccessIPv4, SuccessIPv6, SuccessDomain}

\* The reply codes a refusing server sends: three of the table and one outside.
RefusalCodes ==
    {SOCKS5_REP_GENERAL_FAILURE, SOCKS5_REP_CONNECTION_REFUSED,
     SOCKS5_REP_ADDRESS_TYPE_NOT_SUPPORTED, SOCKS5_REP_ADDRESS_TYPE_NOT_SUPPORTED + 1}

Refusals ==
    {Response(code, SOCKS5_ATYP_IPV4_ADDRESS, Zeros(4), 0) : code \in RefusalCodes}

\* Responses that break the format: wrong version, non-zero reserved byte,
\* unknown address type.
Malformed ==
    { [SuccessIPv4 EXCEPT ![1] = 4], [SuccessIPv4 EXCEPT ![3] = 1],
      [SuccessIPv4 EXCEPT ![4] = 2] }

\* The same response in the order _handle_connect_response reads it: version,
\* command byte, reserved byte, reply code, then address type, address, port.
AsRead(response) ==
    <<response[1], SOCKS5_CMD_CONNECT, response[3], response[2]>> \o Drop(response, 4)

ConnectResponses ==
    LET responses == WellFormedSuccess \cup Refusals \cup Malformed
    IN responses \cup {AsRead(r) : r \in responses}

\* Bytes of the upper protocol that follow the connect response.
Trailing == {<<>>, <<72, 84>>}

\* The credentials a layer is made with: none, a username alone, both.
CredentialChoices ==
    << [username |-> None, password |-> None],
       [username |-> <<"u", "s", "e", "r">>, password |-> <<>>],
       [username |-> <<"u", "s", "e", "r">>, password |-> <<"p", "w">>] >>

TargetIPv4 == [host |-> <<"1", "0", ".", "0", ".", "0", ".", "5">>, port |-> 443]

Targets ==
    { TargetIPv4,
      [host |-> <<":", ":", "1">>, port |-> 80],
      [host |-> HostApi, port |-> 8080],
      [host |-> <<"2", "5", "6", ".", "1", ".", "1", ".", "1">>, port |-> 65535] }

\* The server bytes still to deliver: script[next] is the first of them.
Wire(script) == [script |-> script, next |-> 1]
Remaining(w) == Drop(w.script, w.next)
Delivered(w) == SubSeq(w.script, 1, w.next - 1)

\* The layer when the server's current message began to arrive, how much had
\* been sent and passed to the upper layer by then, and in how many deliveries
\* the message has arrived so far.
Entry(self, sent_before, received_before, deliveries) ==
    [layer |-> self, sent |-> sent_before, received |-> received_before,
     deliveries |-> deliveries]

\* No SOCKS5 tunnel is being negotiated.
NoTunnel ==
    /\ layer = Socks5UpstreamProxy(None, None)
    /\ target = TargetIPv4
    /\ tunnel_state = "inactive"
    /\ sent = <<>>
    /\ received = <<>>
    /\ outcome = NeedMoreData
    /\ wire = Wire(<<>>)
    /\ entry = Entry(Socks5UpstreamProxy(None, None), 0, 0, 0)
    /\ pending = <<>>
    /\ completions = 0
    /\ failed = FALSE

MaxPatternLen == 3
MaxHostLen == 3

\* All texts of the given lengths over the given characters.
Texts(characters, lengths) ==
    UNION {[1..n -> characters] : n \in lengths}

\* The patterns a host_pattern rule is given: the wildcard, a letter and the
\* dot, which a regular expression would read as any character.
Patterns == Texts({"*", "a", "."}, 0..MaxPatternLen)

\* The hosts a request names: letters, dots and the line feed.
Hosts == Texts({"a", "b", ".", "\n"}, {0} \cup 2..MaxHostLen)

\* A _matches_rule call and what it returned.
RuleCall(rule, flow, called, returned) ==
    [rule |-> rule, flow |-> flow, called |-> called, returned |-> returned]

\* No _matches_rule call is being looked at.
NoRuleCall ==
    matching = RuleCall(ProxyRule("default", <<>>, 0, ""), FlowInputs[1], FALSE, FALSE)

Init ==
    /\ proxy_configs = <<>>
    /\ default_proxy = None
    /\ config_loaded = FALSE
    /\ session_affinity = EmptyDict
    /\ \E input \in 1..Len(FlowInputs) :
          flows = [f \in FlowIds |-> IF f = 1 THEN FlowInputs[input] ELSE FlowInputs[1]]
    /\ ret = Return("init", 0, None, None)
    /\ chosen = EmptyDict
    /\ last_load = "none"
    /\ NoTunnel
    /\ NoRuleCall

\* configure(): _load_configuration_from_dir(config_dir).
Load(config_dir) ==
    /\ \E registry \in {_load_configuration_from_dir(config_dir, proxy_configs,
                                                      default_proxy, config_loaded)} :
          /\ proxy_configs' = registry.configs
          /\ default_proxy' = registry.default
          /\ config_loaded' = registry.loaded
          /\ last_load' = IF registry.ended = "warning" THEN last_load ELSE registry.ended
    /\ ret' = Return("load", 0, None, None)
    /\ UNCHANGED <<session_affinity, flows, chosen>>
    /\ UNCHANGED tunnel_vars
    /\ UNCHANGED matching

\* A flow the proxy is serving: its request hook has run and its client has
\* not disconnected.
Active(f) == flows[f].stage \in {"requested", "websocket"}

\* A direct call of _select_proxy(flow).
SelectProxy(f) ==
    /\ Active(f)
    /\ \E s \in _select_proxy(proxy_configs, default_proxy, config_loaded,
                              session_affinity, flows[f]) :
          /\ session_affinity' = s.cache
          /\ chosen' = Remember(chosen, flows[f], s.selected)
          /\ ret' = Drawn(Return("select", f, s.selected, None), s.probability)
    /\ UNCHANGED <<proxy_configs, default_proxy, config_loaded, last_load, flows>>
    /\ UNCHANGED tunnel_vars
    /\ UNCHANGED matching

\* The request hook, for a flow not routed yet.
Request(f) ==
    /\ flows[f].stage = "new"
    /\ IF ~flows[f].multi
       THEN /\ flows' = [flows EXCEPT ![f].stage = "requested"]
            /\ ret' = Return("request", f, None, None)
            /\ UNCHANGED <<session_affinity, chosen>>
       ELSE \E a \in proxy_address(proxy_configs, default_proxy, config_loaded,
                                   session_affinity, flows[f]) :
              IF a.address = None
              THEN /\ flows' = [flows EXCEPT ![f].stage = "requested",
                                             ![f].socks5 = a.socks5]
                   /\ session_affinity' = a.cache
                   /\ chosen' = Remember(chosen, flows[f], a.selected)
                   /\ ret' = Drawn(Return("request", f, a.selected, None), a.probability)
              ELSE \E s \in _select_proxy(proxy_configs, default_proxy, config_loaded,
                                          a.cache, flows[f]) :
                     /\ flows' = [flows EXCEPT
                           ![f].stage = "requested",
                           ![f].socks5 = a.socks5,
                           ![f].via = a.address,
                           ![f].proxy_authorization =
                               IF s.selected # None /\ a.address.scheme \in {"http", "https"}
                               THEN _add_http_auth(flows[f], s.selected)
                               ELSE @]
                     /\ session_affinity' = s.cache
                     /\ chosen' = Remember(Remember(chosen, flows[f], a.selected),
                                           flows[f], s.selected)
                     /\ ret' = Drawn(Return("request", f, s.selected, a.address),
                                     Fraction(a.probability.num * s.probability.num,
                                              a.probability.den * s.probability.den))
    /\ UNCHANGED <<proxy_configs, default_proxy, config_loaded, last_load>>
    /\ UNCHANGED tunnel_vars
    /\ UNCHANGED matching

\* The http_connect_upstream hook, while the flow's request is being served.
HttpConnectUpstream(f) ==
    /\ flows[f].stage = "requested"
    /\ IF ~flows[f].multi
       THEN /\ ret' = Return("http_connect_upstream", f, None, None)
            /\ UNCHANGED <<session_affinity, chosen, flows>>
       ELSE \E s \in _select_proxy(proxy_configs, default_proxy, config_loaded,
                                   session_affinity, flows[f]) :
              /\ flows' = [flows EXCEPT ![f].proxy_authorization =
                              IF /\ s.selected # None
                                 /\ flows[f].via # None
                                 /\ flows[f].via.scheme \in {"http", "https"}
                              THEN _add_http_auth(flows[f], s.selected)
                              ELSE @]
              /\ session_affinity' = s.cache
              /\ chosen' = Remember(chosen, flows[f], s.selected)
              /\ ret' = Drawn(Return("http_connect_upstream", f, s.selected, None),
                              s.probability)
    /\ UNCHANGED <<proxy_configs, default_proxy, config_loaded, last_load>>
    /\ UNCHANGED tunnel_vars
    /\ UNCHANGED matching

\* A websocket_start hook that does not look at the client connection's mode.
WebsocketStart_any_mode(f) ==
    /\ flows[f].stage = "requested"
    /\ LET flow == [flows[f] EXCEPT !.websocket = TRUE, !.stage = "websocket"]
       IN \E a \in proxy_address(proxy_configs, default_proxy, config_loaded,
                                   session_affinity, flow) :
             /\ flows' = [flows EXCEPT ![f] =
                             [flow EXCEPT !.socks5 = a.socks5,
                                          !.via = IF a.address # None
                                                  THEN a.address ELSE @]]
             /\ session_affinity' = a.cache
             /\ chosen' = Remember(chosen, flow, a.selected)
             /\ ret' = Drawn(Return("websocket_start", f, a.selected, a.address),
                                 a.probability)
    /\ UNCHANGED <<proxy_configs, default_proxy, config_loaded, last_load>>
    /\ UNCHANGED tunnel_vars
    /\ UNCHANGED matching

\* The websocket_start hook: the proxy has marked the flow as a WebSocket
\* (flow.websocket is set) after its upgrade request was answered.
WebsocketStart(f) ==
    /\ flows[f].stage = "requested"
    /\ LET flow == [flows[f] EXCEPT !.websocket = TRUE, !.stage = "websocket"]
       IN IF ~flow.multi
          THEN /\ flows' = [flows EXCEPT ![f] = flow]
               /\ ret' = Return("websocket_start", f, None, None)
               /\ UNCHANGED <<session_affinity, chosen>>
          ELSE \E a \in proxy_address(proxy_configs, default_proxy, config_loaded,
                                      session_affinity, flow) :
                 /\ flows' = [flows EXCEPT ![f] =
                                 [flow EXCEPT !.socks5 = a.socks5,
                                              !.via = IF a.address # None
                                                      THEN a.address ELSE @]]
                 /\ session_affinity' = a.cache
                 /\ chosen' = Remember(chosen, flow, a.selected)
                 /\ ret' = Drawn(Return("websocket_start", f, a.selected, a.address),
                                 a.probability)
    /\ UNCHANGED <<proxy_configs, default_proxy, config_loaded, last_load>>
    /\ UNCHANGED tunnel_vars
    /\ UNCHANGED matching

\* The websocket_end hook.
WebsocketEnd(f) ==
    /\ flows[f].stage = "websocket"
    /\ flows' = [flows EXCEPT ![f].stage = "ended"]
    /\ session_affinity' = Without(session_affinity, _get_connection_id(flows[f]))
    /\ chosen' = Without(chosen, _get_connection_id(flows[f]))
    /\ ret' = Return("websocket_end", f, None, None)
    /\ UNCHANGED <<proxy_configs, default_proxy, config_loaded, last_load>>
    /\ UNCHANGED tunnel_vars
    /\ UNCHANGED matching

\* The client_disconnect hook, once the flow's exchange is over.
ClientDisconnect(f) ==
    /\ flows[f].stage \in {"requested", "ended"}
    /\ flows' = [flows EXCEPT ![f].stage = "closed"]
    /\ session_affinity' = Without(session_affinity, _get_connection_id(flows[f]))
    /\ chosen' = Without(chosen, _get_connection_id(flows[f]))
    /\ ret' = Return("client_disconnect", f, None, None)
    /\ UNCHANGED <<proxy_configs, default_proxy, config_loaded, last_load>>
    /\ UNCHANGED tunnel_vars
    /\ UNCHANGED matching

Next ==
    \/ \E config_dir \in Directories : Load(config_dir)
    \/ \E f \in FlowIds : SelectProxy(f)
    \/ \E f \in FlowIds : Request(f)
    \/ \E f \in FlowIds : HttpConnectUpstream(f)
    \/ \E f \in FlowIds : WebsocketStart(f)
    \/ \E f \in FlowIds : WebsocketEnd(f)
    \/ \E f \in FlowIds : ClientDisconnect(f)

Spec == Init /\ [][Next]_vars

-----------------------------------------------------------------------------
(* One SOCKS5 handshake: a layer, its target and a server script.          *)

\* The addon is not used.
NoAddon ==
    /\ proxy_configs = <<>>
    /\ default_proxy = None
    /\ config_loaded = FALSE
    /\ session_affinity = EmptyDict
    /\ flows = [f \in FlowIds |-> FlowInputs[1]]
    /\ ret = Return("init", 0, None, None)
    /\ chosen = EmptyDict
    /\ last_load = "none"

\* Every target is tried with one plain script; the first target with every
\* script.
TunnelInit ==
    /\ NoAddon
    /\ NoRuleCall
    /\ \E choice \in 1..Len(CredentialChoices), address \in Targets,
          greeting \in GreetingResponses, auth \in AuthResponses \cup {<<>>},
          connect \in ConnectResponses, trailing \in Trailing :
          /\ auth # <<>> <=> /\ greeting = <<5, 2>>
                             /\ Truthy(CredentialChoices[choice].username)
                             /\ Truthy(CredentialChoices[choice].password)
          /\ address = TargetIPv4 \/ (connect = AsRead(SuccessIPv4) /\ trailing = <<>>)
          /\ layer = Socks5UpstreamProxy(CredentialChoices[choice].username,
                                         CredentialChoices[choice].password)
          /\ entry = Entry(layer, 0, 0, 0)
          /\ target = address
          /\ wire = Wire(greeting \o auth \o connect \o trailing)
    /\ tunnel_state = "inactive"
    /\ sent = <<>>
    /\ received = <<>>
    /\ outcome = NeedMoreData
    /\ pending = <<>>
    /\ completions = 0
    /\ failed = FALSE

\* A start that writes the authentication request along with the greeting,
\* before the server chose a method.
StartHandshake_authenticating ==
    /\ tunnel_state = "inactive"
    /\ tunnel_state' = "establishing"
    /\ sent' = <<start_handshake(layer.username, layer.password)>>
                  \o IF Truthy(layer.username) /\ Truthy(layer.password)
                     THEN <<_send_authentication(layer.username, layer.password)>>
                     ELSE <<>>
    /\ entry' = Entry(layer, 1, 0, 0)
    /\ UNCHANGED <<layer, target, received, outcome, wire, pending, completions, failed>>
    /\ UNCHANGED addon_vars
    /\ UNCHANGED matching

\* The tunnel layer starts: start_handshake sends the greeting.
StartHandshake ==
    /\ tunnel_state = "inactive"
    /\ tunnel_state' = "establishing"
    /\ sent' = <<start_handshake(layer.username, layer.password)>>
    /\ entry' = Entry(layer, 1, 0, 0)
    /\ UNCHANGED <<layer, target, received, outcome, wire, pending, completions, failed>>
    /\ UNCHANGED addon_vars
    /\ UNCHANGED matching

\* Where the tunnel layer routes deliveries after a handshake call returned:
\* to the upper layer once the handshake reported done.
TunnelStateAfter(result) == IF result.done THEN "open" ELSE "establishing"

\* The server's next n bytes arrive while the tunnel is being established:
\* receive_handshake_data(data).
DeliverHandshake(n) ==
    /\ tunnel_state = "establishing"
    /\ n \in 1..Len(Remaining(wire))
    /\ \E e \in {receive_handshake_data(layer, target, SubSeq(Remaining(wire), 1, n))} :
          /\ layer' = e.layer
          /\ sent' = sent \o e.send
          /\ received' = received \o e.forward
          /\ outcome' = e.result
          /\ tunnel_state' = TunnelStateAfter(e.result)
          /\ completions' = completions + IF e.result.done THEN 1 ELSE 0
          /\ failed' = (failed \/ e.result.error # None)
          /\ IF layer.state # entry.layer.state
             THEN /\ entry' = Entry(layer, Len(sent), Len(received), 1)
                  /\ pending' = SubSeq(Remaining(wire), 1, n)
             ELSE /\ entry' = [entry EXCEPT !.deliveries = @ + 1]
                  /\ pending' = pending \o SubSeq(Remaining(wire), 1, n)
    /\ wire' = [wire EXCEPT !.next = @ + n]
    /\ UNCHANGED target
    /\ UNCHANGED addon_vars
    /\ UNCHANGED matching

\* The server's next n bytes arrive on the open tunnel: they go to the upper
\* layer, and no handshake message is arriving any more.
RelayData(n) ==
    /\ tunnel_state = "open"
    /\ n \in 1..Len(Remaining(wire))
    /\ received' = received \o SubSeq(Remaining(wire), 1, n)
    /\ wire' = [wire EXCEPT !.next = @ + n]
    /\ pending' = <<>>
    /\ UNCHANGED <<layer, target, tunnel_state, sent, outcome, entry, completions,
                   failed>>
    /\ UNCHANGED addon_vars
    /\ UNCHANGED matching

\* The longest script.
MaxDelivery == 2 + 2 + Len(AsRead(SuccessIPv6)) + 2

TunnelNext ==
    \/ StartHandshake
    \/ \E n \in 1..MaxDelivery : DeliverHandshake(n)
    \/ \E n \in 1..MaxDelivery : RelayData(n)

TunnelSpec == TunnelInit /\ [][TunnelNext]_vars

-----------------------------------------------------------------------------
(* Handshakes of layers whose username or password is up to               *)
(* MaxCredentialLen bytes long.                                            *)

MaxCredentialLen == 256

Repeated(c, n) == [i \in 1..n |-> c]

\* Lengths of (username, password): short ones, the longest that fit a length
\* byte, and one of the two longer than that.
CredentialLengths ==
    {<<2, 2>>, <<MaxCredentialLen - 1, MaxCredentialLen - 1>>,
     <<MaxCredentialLen, 2>>, <<2, MaxCredentialLen>>}

CredentialInit ==
    /\ NoAddon
    /\ NoRuleCall
    /\ \E lengths \in CredentialLengths, greeting \in GreetingResponses :
          /\ layer = Socks5UpstreamProxy(Repeated("u", lengths[1]), Repeated("p", lengths[2]))
          /\ entry = Entry(layer, 0, 0, 0)
          /\ wire = Wire(greeting \o (IF greeting = <<5, 2>> THEN <<1, 0>> ELSE <<>>)
                                  \o AsRead(SuccessIPv4) \o <<72, 84>>)
    /\ target = TargetIPv4
    /\ tunnel_state = "inactive"
    /\ sent = <<>>
    /\ received = <<>>
    /\ outcome = NeedMoreData
    /\ pending = <<>>
    /\ completions = 0
    /\ failed = FALSE

CredentialSpec == CredentialInit /\ [][TunnelNext]_vars

-----------------------------------------------------------------------------
(* The loader on its own: configuration files with zero, one or several    *)
(* defaults, loaded one after the other.                                   *)

MaxEntries == 2

\* The entries a configuration file lists: candidates, one of them without
\* rules, and two upstreams with a default rule.
LoadEntries == {DataProxyA, DataProxyB, DataProxyD, DataProxyE, DataProxyC, DataProxyF}

\* Every list of up to MaxEntries different entries.
EntryLists ==
    {proxies \in UNION {[1..n -> LoadEntries] : n \in 1..MaxEntries} :
        \A i, j \in 1..Len(proxies) : i # j => proxies[i] # proxies[j]}

\* The directories the loader is pointed at: those of the scenario and one
\* per list of entries.
LoadDirectories ==
    Directories \cup
    {Directory(TRUE, TRUE, <<NamedFile("proxies.yaml", FileOf(proxies))>>) :
        proxies \in EntryLists}

LoadInit == Init

LoadNext == \E config_dir \in LoadDirectories : Load(config_dir)

LoadSpec == LoadInit /\ [][LoadNext]_vars

-----------------------------------------------------------------------------
(* The hooks on one registry: an upstream with an unusable url, http,      *)
(* https and socks5 upstreams without a port, a socks5 upstream with a     *)
(* port and without a password.                                            *)

HookDirectory == Directory(TRUE, TRUE, <<NamedFile("proxies.yaml", FileRouting)>>)

HookInit == Init

HookNext ==
    \/ Load(HookDirectory)
    \/ \E f \in FlowIds : SelectProxy(f)
    \/ \E f \in FlowIds : Request(f)
    \/ \E f \in FlowIds : HttpConnectUpstream(f)
    \/ \E f \in FlowIds : WebsocketStart(f)
    \/ \E f \in FlowIds : WebsocketEnd(f)
    \/ \E f \in FlowIds : ClientDisconnect(f)

HookSpec == HookInit /\ [][HookNext]_vars

-----------------------------------------------------------------------------
(* The hooks on a registry of urls with and without scheme, host and port: *)
(* a url that names port 0, a url without a scheme, a url without a host,  *)
(* http and socks5 urls without a port and an https url with its own port. *)

AddressDirectory == Directory(TRUE, TRUE, <<NamedFile("proxies.yaml", FileAddresses)>>)

AddressNext ==
    \/ Load(AddressDirectory)
    \/ \E f \in FlowIds : SelectProxy(f)
    \/ \E f \in FlowIds : Request(f)
    \/ \E f \in FlowIds : HttpConnectUpstream(f)
    \/ \E f \in FlowIds : WebsocketStart(f)
    \/ \E f \in FlowIds : WebsocketEnd(f)
    \/ \E f \in FlowIds : ClientDisconnect(f)

AddressSpec == Init /\ [][AddressNext]_vars

-----------------------------------------------------------------------------
(* The rule matcher on its own: host_pattern rules against request hosts.  *)

\* The ports a port rule names and a request targets: the ends of the range
\* and two in between.
Ports == {0, 80, 443, 65535}

\* A host_pattern rule and a request whose host is a text or, malformed, not
\* a string; a port rule or a default rule and a request with or without a
\* port.
RuleInit ==
    /\ NoAddon
    /\ NoTunnel
    /\ \/ \E pattern \in Patterns, text \in Hosts, is_string \in BOOLEAN :
             /\ is_string \/ text = <<>>
             /\ matching = RuleCall(ProxyRule("host_pattern", pattern, 0, ""),
                                    Flow(ClientAddress, IF is_string THEN text ELSE None,
                                         80, TRUE),
                                    FALSE, FALSE)
       \/ \E type \in {"port", "default"}, n \in Ports, port \in Ports \cup {NoPort} :
             /\ type = "default" => n = 0
             /\ matching = RuleCall(ProxyRule(type, <<>>, n, ""),
                                    Flow(ClientAddress, HostApi, port, TRUE),
                                    FALSE, FALSE)

\* _matches_rule(flow, rule).
MatchesRule ==
    /\ ~matching.called
    /\ matching' = [matching EXCEPT !.called = TRUE,
                                    !.returned = _matches_rule(matching.flow, matching.rule)]
    /\ UNCHANGED addon_vars
    /\ UNCHANGED tunnel_vars

RuleNext == MatchesRule

RuleSpec == RuleInit /\ [][RuleNext]_vars

-----------------------------------------------------------------------------
(* Vocabulary of the properties.                                           *)

\* The operations that call _select_proxy for the flow they are given; a hook
\* does so only for a flow in multi-upstream mode.
CalledSelect(r, flow) ==
    \/ r.op = "select"
    \/ r.op \in {"request", "http_connect_upstream", "websocket_start"} /\ flow.multi

\* The candidates of the current registry that match the flow.
Matching(flow) == MatchingProxies(proxy_configs, flow)

Range(seq) == {seq[i] : i \in 1..Len(seq)}

\* The registries a complete load of one of the configuration files builds.
CompleteRegistries ==
    {<<built.configs, built.default>> :
        built \in {LoadProxies(FirstConfigFile(d.files).content.proxies, 1, <<>>, None) :
                     d \in {x \in Directories :
                              /\ x.exists /\ x.is_dir /\ x.files # <<>>
                              /\ FirstConfigFile(x.files).content.parses
                              /\ FirstConfigFile(x.files).content.has_proxies
                              /\ \A i \in 1..Len(FirstConfigFile(x.files).content.proxies) :
                                    ~EntryRaises(FirstConfigFile(x.files).content.proxies[i])}}}

\* The connection ids a flow's session has had: the one of its request and,
\* once it is a WebSocket, the one of its websocket hooks.
SessionIds(flow) ==
    {_get_connection_id([flow EXCEPT !.websocket = FALSE]), _get_connection_id(flow)}

\* A flow whose session has started and has not been torn down by
\* websocket_end or client_disconnect.
ActiveSessions == {f \in FlowIds : flows[f].stage \in {"requested", "websocket"}}

-----------------------------------------------------------------------------
(* C1: stickiness.  When _select_proxy is called for a flow whose          *)
(* connection id already has a chosen upstream (the one the last call for  *)
(* that id returned, no teardown of the id since) and that upstream still  *)
(* matches the flow, the call returns that same upstream, whatever the     *)
(* weights of the other matching candidates.                               *)
C1_Stickiness ==
    [][LET flow == flows'[ret'.flow]
           id == _get_connection_id(flow)
       IN (/\ ret'.flow \in FlowIds
           /\ CalledSelect(ret', flow)
           /\ config_loaded
           /\ id \in DOMAIN chosen
           /\ _proxy_matches_rules(chosen[id], flow))
          => ret'.selected = chosen[id]]_vars

\* A direct call for a flow already routed by its request hook returned the
\* lighter proxy-a again although the heavier proxy-b matches too.
C1_Witness ==
    /\ ret.op = "select"
    /\ ret.selected # None
    /\ ret.selected.name = "proxy-a"
    /\ flows[ret.flow].via # None
    /\ flows[ret.flow].via.host = "pa"
    /\ ~flows[ret.flow].websocket
    /\ \E p \in Range(Matching(flows[ret.flow])) : p.weight > ret.selected.weight

(* C2: the upstream the request hook recorded for a flow and the upstream  *)
(* the following websocket_start hook records for the same flow are the    *)
(* same.                                                                   *)
C2_WebSocketKeepsUpstream ==
    [][(/\ ret'.op = "websocket_start"
        /\ flows[ret'.flow].via # None
        /\ ret'.address # None)
       => flows'[ret'.flow].via = flows[ret'.flow].via]_vars

(* C3: when at least one candidate matches the flow and the flow's         *)
(* connection id has no cache entry, _select_proxy returns a member of the *)
(* matching set (so never the default and never a candidate that does not  *)
(* match), and the single match when there is only one.                    *)
C3_SelectsFromMatching ==
    [][LET flow == flows'[ret'.flow]
       IN (/\ ret'.flow \in FlowIds
           /\ CalledSelect(ret', flow)
           /\ config_loaded
           /\ _get_connection_id(flow) \notin DOMAIN session_affinity
           /\ Matching(flow) # <<>>)
          => /\ ret'.selected \in Range(Matching(flow))
             /\ ret'.selected # default_proxy
             /\ Len(Matching(flow)) = 1 => ret'.selected = Matching(flow)[1]]_vars

\* The request hook chose proxy-b for a flow that proxy-a and proxy-b match,
\* with proxy-c configured as the default.
C3_Witness ==
    /\ ret.op = "request"
    /\ ret.selected # None
    /\ ret.selected.name = "proxy-b"
    /\ Len(Matching(flows[ret.flow])) = 2
    /\ default_proxy # None
    /\ DOMAIN session_affinity = {_get_connection_id(flows[ret.flow])}

(* C4: on a loaded registry (the registry of a complete load), whatever    *)
(* happened before, _select_proxy for a flow that no candidate matches     *)
(* returns the default when one is set and none otherwise.                 *)
C4_DefaultOrNone ==
    [][LET flow == flows'[ret'.flow]
       IN (/\ ret'.flow \in FlowIds
           /\ CalledSelect(ret', flow)
           /\ config_loaded
           /\ <<proxy_configs, default_proxy>> \in CompleteRegistries
           /\ Matching(flow) = <<>>)
          => ret'.selected = default_proxy]_vars

(* C5: while config_loaded is false, _select_proxy and proxy_address       *)
(* return none and leave the affinity cache and every flow's routing       *)
(* target unchanged.                                                       *)
C5_UnloadedSelectsNothing ==
    [][LET flow == flows'[ret'.flow]
       IN (/\ ret'.flow \in FlowIds
           /\ CalledSelect(ret', flow)
           /\ ~config_loaded)
          => /\ ret'.selected = None
             /\ ret'.address = None
             /\ session_affinity' = session_affinity
             /\ \A f \in FlowIds : flows'[f].via = flows[f].via]_vars

\* A direct call on an unloaded registry returned none although the registry
\* holds a candidate that matches the flow (left by a load that raised).
C5_Witness ==
    /\ ~config_loaded
    /\ ret.op = "select"
    /\ ret.selected = None
    /\ Matching(flows[ret.flow]) # <<>>
    /\ session_affinity = EmptyDict

(* C6: after a load that ended in a configuration error, every             *)
(* _select_proxy call returns none until the next successful load.         *)
C6_NoneAfterFailedLoad ==
    (/\ last_load = "error"
     /\ ret.flow \in FlowIds
     /\ CalledSelect(ret, flows[ret.flow]))
    => ret.selected = None

(* C7: a load whose configuration file has no 'proxies' key ends with      *)
(* config_loaded false and with no candidates and no default.              *)
C7_NoProxiesKeyUnloads ==
    [][\A d \in Directories :
          (/\ d.exists /\ d.is_dir /\ d.files # <<>>
           /\ FirstConfigFile(d.files).content.parses
           /\ ~FirstConfigFile(d.files).content.has_proxies
           /\ Load(d))
          => /\ ~config_loaded'
             /\ proxy_configs' = <<>>
             /\ default_proxy' = None]_vars

(* C8: a load from a directory that is absent, is not a directory or holds *)
(* no configuration file leaves candidates, default, the loaded flag and   *)
(* the affinity cache unchanged.                                           *)
C8_NoFileIsNoOp ==
    [][\A d \in Directories :
          (/\ ~d.exists \/ ~d.is_dir \/ d.files = <<>>
           /\ Load(d))
          => UNCHANGED <<proxy_configs, default_proxy, config_loaded,
                         session_affinity>>]_vars

(* C9: whenever _select_proxy can read the registry (config_loaded is      *)
(* true), candidates and default are those of one complete load of a       *)
(* configuration (or empty, when the configuration had nothing to load),   *)
(* never a partially built set.                                            *)
C9_RegistryIsComplete ==
    config_loaded =>
        <<proxy_configs, default_proxy>> \in CompleteRegistries \cup {<<<<>>, None>>}

(* C10: once the websocket_end or client_disconnect hook has run for a     *)
(* flow, the cache holds no entry under a connection id of that flow's     *)
(* session (unless a session still active has the same id), and the cache  *)
(* is empty once every session that was started has been torn down.        *)
C10_TeardownEmptiesCache ==
    /\ \A f \in FlowIds :
          flows[f].stage \in {"ended", "closed"} =>
             \A k \in SessionIds(flows[f]) \cap DOMAIN session_affinity :
                \E g \in ActiveSessions : k \in SessionIds(flows[g])
    /\ ActiveSessions = {} => session_affinity = EmptyDict

-----------------------------------------------------------------------------
(* Vocabulary of the handshake properties.                                 *)

\* What the layer sent and passed to the upper layer since the current message
\* began to arrive.
SentSince == SubSeq(sent, entry.sent + 1, Len(sent))
ReceivedSince == SubSeq(received, entry.received + 1, Len(received))

(* C11: in each of the states greet, auth and connect, after every         *)
(* delivery the layer, the bytes it sent, the bytes it passed on and the   *)
(* result it reported are those of delivering in one piece all the bytes   *)
(* received since the server's current message began.                      *)
C11_SplitEqualsWhole ==
    pending # <<>> =>
        LET whole == receive_handshake_data(entry.layer, target, pending)
        IN /\ layer = whole.layer
           /\ outcome = whole.result
           /\ SentSince = whole.send
           /\ ReceivedSince = whole.forward

\* The greeting response 5, 0 arrived as one byte and one byte and the layer
\* moved on to the connect request.
C11_Witness ==
    /\ pending = <<5, 0>>
    /\ entry.deliveries = 2
    /\ entry.layer.state = "greet"
    /\ layer.state = "connect"
    /\ SentSince = <<_send_connect_request(target)>>

\* p is a proper prefix of r.
IsProperPrefix(p, r) == Len(p) < Len(r) /\ SubSeq(r, 1, Len(p)) = p

\* The server's connect response is arriving at a layer that entered the
\* connect state with an empty buffer.
ConnectResponseArriving ==
    /\ entry.layer.state = "connect"
    /\ entry.layer.buf = <<>>
    /\ entry.deliveries > 0
    /\ tunnel_state # "inactive"

(* C12: in the connect state, while the bytes received are a proper prefix *)
(* of a well-formed success response, the handler reports need-more-data,  *)
(* keeps all of them in the buffer, sends and forwards nothing and stays   *)
(* in the connect state.                                                   *)
C12_PrefixNeedsMoreData ==
    (/\ ConnectResponseArriving
     /\ \E r \in WellFormedSuccess : IsProperPrefix(pending, r))
    => /\ outcome = NeedMoreData
       /\ layer = [entry.layer EXCEPT !.buf = pending]
       /\ SentSince = <<>>
       /\ ReceivedSince = <<>>

\* The bytes received since the connect response began are a well-formed
\* success response followed by the bytes in `rest`.
CompletesResponse(rest) == \E r \in WellFormedSuccess : pending = r \o rest

(* C13: once a well-formed success response (version, reply code 0,        *)
(* reserved byte, address type, address, port) is complete in the buffer,  *)
(* the handler reports done, has consumed exactly the response, has passed *)
(* every byte that followed it to the upper layer in order, and leaves the *)
(* buffer empty.                                                           *)
C13_SuccessConsumedRestForwarded ==
    \A rest \in Trailing :
        (ConnectResponseArriving /\ CompletesResponse(rest))
        => /\ outcome = Result(TRUE, None)
           /\ ReceivedSince = rest
           /\ layer.buf = <<>>

(* C14: a connect response whose reply code, the byte after the version    *)
(* byte, is non-zero fails the handshake with the refusal error that       *)
(* carries the table's text for that code, or the catch-all text naming    *)
(* the code when it is outside the table.                                  *)
C14_RefusalNamesReplyCode ==
    (/\ ConnectResponseArriving
     /\ pending \in Refusals)
    => outcome = Result(FALSE, RefusedError(pending[2]))

\* r is a prefix of s.
IsPrefix(r, s) == Len(r) <= Len(s) /\ SubSeq(s, 1, Len(r)) = r

\* The bytes a step delivers.
DeliveredBy(before, after) == SubSeq(before.script, before.next, after.next - 1)

(* C15: (done=True, error=None) is reported by at most one delivery of a   *)
(* handshake; the delivery that reports it finds the layer in the connect  *)
(* state with the connect request already sent, and is the one with which  *)
(* the buffer first holds a complete connect response.                     *)
C15_DoneExactlyOnce ==
    [][/\ completions' <= 1
       /\ (wire' # wire /\ tunnel_state = "establishing" /\ outcome'.done)
          => /\ completions = 0
             /\ outcome'.error = None
             /\ layer.state = "connect"
             /\ _send_connect_request(target) \in Range(sent)
             /\ \E r \in ConnectResponses :
                   /\ Len(layer.buf) < Len(r)
                   /\ IsPrefix(r, layer.buf \o DeliveredBy(wire, wire'))]_vars

(* C16: once a delivery has returned an error, every later delivery        *)
(* returns an error again: none reports done, sends bytes to the proxy or  *)
(* passes bytes to the upper layer, and the layer neither changes state    *)
(* nor consumes anything of its buffer, so no step is run a second time.   *)
C16_FailureIsTerminal ==
    [][failed =>
          /\ failed'
          /\ completions' = completions
          /\ sent' = sent
          /\ received' = received
          /\ layer'.state = layer.state
          /\ wire' # wire =>
                /\ ~outcome'.done
                /\ outcome'.error = outcome.error
                /\ layer'.buf = layer.buf \o DeliveredBy(wire, wire')]_vars

\* A refusal arrived one byte at a time: the fourth delivery failed and six
\* more deliveries followed it.
C16_Witness ==
    /\ failed
    /\ layer.state = "connect"
    /\ pending = AsRead(Response(SOCKS5_REP_CONNECTION_REFUSED,
                                 SOCKS5_ATYP_IPV4_ADDRESS, Zeros(4), 0))
    /\ entry.deliveries = Len(pending)
    /\ outcome = Result(FALSE, RefusedError(SOCKS5_REP_CONNECTION_REFUSED))
    /\ sent = <<start_handshake(None, None), _send_connect_request(target)>>
    /\ received = <<>>

\* The layer was made with a username and a password, neither of them empty.
CredentialsConfigured ==
    /\ layer.username # None /\ layer.username # <<>>
    /\ layer.password # None /\ layer.password # <<>>

(* C17: nothing is written before the handshake starts; the first write is *)
(* the greeting, 05 02 00 02 when credentials are configured and 05 01 00  *)
(* otherwise; it stays the only write as long as fewer than 2 bytes of the *)
(* greeting response have been received.                                   *)
C17_GreetingIsFirstWrite ==
    /\ tunnel_state = "inactive" => sent = <<>>
    /\ tunnel_state # "inactive" =>
          /\ Len(sent) >= 1
          /\ sent[1] = IF CredentialsConfigured THEN <<5, 2, 0, 2>> ELSE <<5, 1, 0>>
    /\ Len(Delivered(wire)) < 2 => Len(sent) <= 1

\* A layer with a username and an empty password has sent the greeting that
\* offers no authentication alone, and one byte of the response has arrived.
C17_Witness ==
    /\ Truthy(layer.username)
    /\ layer.password = <<>>
    /\ sent = << <<5, 1, 0>> >>
    /\ Len(Delivered(wire)) = 1
    /\ layer.buf = Delivered(wire)

\* The connect request of the handshake, once it was sent: nothing is sent
\* after it.
ConnectRequest == sent[Len(sent)]

\* The address part the request must carry for each target host: the 4 bytes
\* of 10.0.0.5, the 16 bytes of ::1, and the names a.x and 256.1.1.1, which
\* is no IPv4 literal, as length and ASCII bytes.
ExpectedAddress ==
    CASE target.host = <<"1", "0", ".", "0", ".", "0", ".", "5">> ->
            <<1, 10, 0, 0, 5>>
      [] target.host = <<":", ":", "1">> ->
            <<4, 0, 0, 0, 0, 0, 0, 0, 0, 0, 0, 0, 0, 0, 0, 0, 1>>
      [] target.host = <<"a", ".", "x">> ->
            <<3, 3, 97, 46, 120>>
      [] target.host = <<"2", "5", "6", ".", "1", ".", "1", ".", "1">> ->
            <<3, 9, 50, 53, 54, 46, 49, 46, 49, 46, 49>>

(* C18: the connect request is 05 01 00, then type 01 and 4 bytes for an   *)
(* IPv4 literal, else type 04 and 16 bytes for an IPv6 literal, else type  *)
(* 03, a length byte and the host's ASCII bytes, then the port big-endian; *)
(* for 10.0.0.5:443 it is 05 01 00 01 0A 00 00 05 01 BB.  It is the same   *)
(* whatever the server has sent.                                           *)
C18_ConnectRequestEncoding ==
    layer.state = "connect" =>
        /\ ConnectRequest = <<5, 1, 0>> \o ExpectedAddress
                               \o <<target.port \div 256, target.port % 256>>
        /\ LET ipv4 == inet_pton4(target.host)
           IN IF ipv4 # None THEN ExpectedAddress = <<1>> \o ipv4
              ELSE ExpectedAddress[1] = 4 <=> inet_pton6(target.host) # None
        /\ target = TargetIPv4 => ConnectRequest = <<5, 1, 0, 1, 10, 0, 0, 5, 1, 187>>

\* The request for 10.0.0.5:443 was sent after a username/password exchange.
C18_Witness ==
    /\ layer.state = "connect"
    /\ target = TargetIPv4
    /\ Len(sent) = 3
    /\ ConnectRequest = <<5, 1, 0, 1, 10, 0, 0, 5, 1, 187>>

-----------------------------------------------------------------------------
(* Rule matching.                                                          *)

\* The upstream has a rule that matches the flow.
SomeRuleMatches(proxy_config, flow) ==
    Len(SelectSeq(proxy_config.rules, LAMBDA rule : _matches_rule(flow, rule))) > 0

(* C19: an upstream of the registry is among the matching upstreams of a   *)
(* flow exactly when one of its rules matches the flow; every upstream a   *)
(* call returns has a rule that matches the call's flow or is the default, *)
(* so an upstream without rules is returned only as the default.           *)
C19_MatchesIffSomeRule ==
    /\ \A i \in 1..Len(proxy_configs), input \in 1..Len(FlowInputs) :
          proxy_configs[i] \in Range(MatchingProxies(proxy_configs, FlowInputs[input]))
             <=> SomeRuleMatches(proxy_configs[i], FlowInputs[input])
    /\ ret.selected # None =>
          \/ SomeRuleMatches(ret.selected, flows[ret.flow])
          \/ ret.selected = default_proxy
    /\ (ret.selected # None /\ ret.selected.rules = <<>>) => ret.selected = default_proxy

\* The registry holds an upstream without rules and one with two port rules,
\* the second of which matches the flow: the call returned the latter.
C19_Witness ==
    /\ config_loaded
    /\ ret.op = "select"
    /\ \E i \in 1..Len(proxy_configs) : proxy_configs[i].rules = <<>>
    /\ default_proxy = None
    /\ ret.selected # None
    /\ ret.selected.name = "proxy-d"
    /\ Len(ret.selected.rules) = 2
    /\ ~_matches_rule(flows[ret.flow], ret.selected.rules[1])
    /\ flows[ret.flow].port = 443

\* Whether the pattern, each "*" read as any run of characters and every
\* other character as itself, is at the start of the text.
RECURSIVE StartsWith(_, _)
StartsWith(text, pattern) ==
    IF pattern = <<>> THEN TRUE
    ELSE IF Head(pattern) = "*"
    THEN \E run \in 0..Len(text) : StartsWith(Drop(text, run + 1), Tail(pattern))
    ELSE /\ text # <<>>
         /\ Head(text) = Head(pattern)
         /\ StartsWith(Tail(text), Tail(pattern))

\* The pattern occurs somewhere in the text.
Occurs(pattern, text) ==
    \E start \in 1..(Len(text) + 1) : StartsWith(Drop(text, start), pattern)

(* C20: a host_pattern rule matches a flow whose host is a string exactly  *)
(* when the pattern, with each * standing for any run of characters and    *)
(* every other character for itself, occurs somewhere in the host; it      *)
(* never matches a flow whose host is not a string.                        *)
C20_HostPatternIsSubstringSearch ==
    (matching.called /\ matching.rule.type = "host_pattern") =>
        matching.returned =
            IF matching.flow.host = None THEN FALSE
            ELSE Occurs(matching.rule.pattern, matching.flow.host)

(* C21: a port rule for n matches a flow exactly when the flow has a port  *)
(* and it equals n, for every n from 0 to 65535; a default rule matches    *)
(* every flow.                                                             *)
C21_PortRuleIsEquality ==
    /\ (matching.called /\ matching.rule.type = "port") =>
          matching.returned = (/\ matching.flow.port # NoPort
                               /\ matching.flow.port = matching.rule.port)
    /\ (matching.called /\ matching.rule.type = "default") => matching.returned

-----------------------------------------------------------------------------
(* The registry after a load.                                              *)

\* Whether the entry of a configuration file carries a default rule.
CarriesDefault(entry_or_config) ==
    \E r \in 1..Len(entry_or_config.rules) : entry_or_config.rules[r].type = "default"

\* The names of a list of entries or of upstreams, in order.
Names(list) == [i \in 1..Len(list) |-> list[i].name]

(* C22: a load that reads a configuration file to its end leaves as        *)
(* candidates exactly the configured upstreams without a default rule, in  *)
(* configuration order, and as the default the last configured upstream    *)
(* with a default rule, or none when there is no such upstream.            *)
C22_LastDefaultWins ==
    [][\A d \in LoadDirectories :
          (/\ ret'.op = "load" /\ last_load' = "loaded"
           /\ d.exists /\ d.is_dir /\ d.files # <<>>
           /\ FirstConfigFile(d.files).content.has_proxies
           /\ Range(Names(proxy_configs'))
                 \subseteq Range(Names(FirstConfigFile(d.files).content.proxies))
           /\ Load(d)) =>
             LET proxies == FirstConfigFile(d.files).content.proxies
                 defaults == {i \in 1..Len(proxies) : CarriesDefault(proxies[i])}
                 last == CHOOSE i \in defaults : \A j \in defaults : j <= i
             IN /\ \A i \in 1..Len(proxy_configs') : ~CarriesDefault(proxy_configs'[i])
                /\ Names(proxy_configs')
                      = Names(SelectSeq(proxies, LAMBDA e : ~CarriesDefault(e)))
                /\ IF defaults = {} THEN default_proxy' = None
                   ELSE /\ default_proxy' # None
                        /\ default_proxy'.name = proxies[last].name
                        /\ CarriesDefault(default_proxy')]_vars

\* A file that lists proxy-f and then proxy-c, both with a default rule, was
\* loaded: proxy-c is the default and there is no candidate.
C22_Witness ==
    /\ ret.op = "load"
    /\ config_loaded
    /\ last_load = "loaded"
    /\ proxy_configs = <<>>
    /\ default_proxy = ConfigOf(DataProxyC)
    /\ session_affinity = EmptyDict

-----------------------------------------------------------------------------
(* Routing target and credentials.                                         *)

\* The request hook has just run for flow f, a multi-upstream flow.
RequestHookRan(f) ==
    /\ flows[f].multi
    /\ flows[f].stage = "new"
    /\ flows'[f].stage = "requested"

C24_DefaultPortByScheme ==
    (ret.op \in {"request", "websocket_start"} /\ ret.address # None) =>
        LET url == ret.selected.url
        IN /\ ret.address.scheme = url.scheme
           /\ ret.address.host = url.hostname
           /\ ret.address.port =
                 IF url.port # NoPort THEN url.port
                 ELSE CASE url.scheme = "socks5" -> 1080
                        [] url.scheme = "https" -> 443
                        [] url.scheme = "http" -> 80

\* The http_connect_upstream hook ran for flow f, made in multiupstream mode.
ConnectHookRan(f) ==
    /\ flows[f].multi /\ flows[f].stage = "requested"
    /\ ret'.op = "http_connect_upstream" /\ ret'.flow = f

\* The upstreams of the registry whose address is the one in via.
RoutedThrough(via) ==
    {upstream \in Range(proxy_configs) \cup (IF default_proxy = None THEN {} ELSE {default_proxy}) :
        /\ upstream.url.scheme = via.scheme
        /\ upstream.url.hostname = via.host}

(* C25: when the request hook or the http_connect_upstream hook has run    *)
(* for a flow routed through an http or https upstream, the flow's         *)
(* Proxy-Authorization header is "Basic " followed by base64 of            *)
(* "username:password" of that upstream's pair, the URL's username and     *)
(* password when the URL carries both, else the explicit fields when both  *)
(* are set; with no pair the hook leaves the header as it was.             *)
C25_BasicAuthFromResolvedPair ==
    [][\A f \in FlowIds :
          (/\ RequestHookRan(f) \/ ConnectHookRan(f)
           /\ flows'[f].via # None
           /\ flows'[f].via.scheme \in {"http", "https"}) =>
             \A upstream \in RoutedThrough(flows'[f].via) :
                LET from_url == upstream.url.username # "" /\ upstream.url.password # ""
                    from_fields == upstream.username # "" /\ upstream.password # ""
                    text == IF from_url
                            THEN Characters(upstream.url.username) \o <<":">>
                                     \o Characters(upstream.url.password)
                            ELSE Characters(upstream.username) \o <<":">>
                                     \o Characters(upstream.password)
                IN IF from_url \/ from_fields
                   THEN flows'[f].proxy_authorization =
                               <<"B", "a", "s", "i", "c", " ">> \o b64encode(Encode(text))
                   ELSE flows'[f].proxy_authorization = flows[f].proxy_authorization]_vars

(* C26: when a hook has run for a flow and its select returned a socks5    *)
(* upstream, the flow's Proxy-Authorization header is as it was before,    *)
(* and the socks5 credentials left in the flow's metadata change only to   *)
(* that upstream's resolved pair, with a username and a password.          *)
C26_Socks5CredentialsOnlyInTunnel ==
    [][\A f \in FlowIds :
          (/\ flows[f].multi
           /\ ret'.flow = f
           /\ ret'.op \in {"request", "http_connect_upstream", "websocket_start"}
           /\ ret'.selected # None
           /\ ret'.selected.url.scheme = "socks5") =>
             /\ flows'[f].proxy_authorization = flows[f].proxy_authorization
             /\ \/ flows'[f].socks5 = flows[f].socks5
                \/ /\ flows'[f].socks5.username # "" /\ flows'[f].socks5.password # ""
                   /\ \/ /\ flows'[f].socks5.username = ret'.selected.url.username
                         /\ flows'[f].socks5.password = ret'.selected.url.password
                      \/ /\ flows'[f].socks5.username = ret'.selected.username
                         /\ flows'[f].socks5.password = ret'.selected.password]_vars

(* C27: when select is called for a flow whose identity has no cache entry *)
(* and two or more candidates match, the result is a matching candidate,   *)
(* every matching candidate is a possible result, and a candidate is drawn *)
(* with probability its weight over the sum of the weights of the matching *)
(* candidates; the probabilities of the candidates add up to 1, and with   *)
(* weights 1 and 3 the heavier candidate is drawn with probability 3/4.    *)
C27_WeightedOverMatchingOnly ==
    [][LET flow == flows'[ret'.flow]
           id == _get_connection_id(flow)
           candidates == Matching(flow)
           sum == total_weight(candidates)
           outcomes == _select_proxy(proxy_configs, default_proxy, config_loaded,
                                     session_affinity, flow)
           drawn == ret'.probability
           Outcome(i) == CHOOSE s \in outcomes : s.selected = candidates[i]
           up_to[i \in 0..Len(candidates)] ==
               IF i = 0 THEN 0 ELSE up_to[i - 1] + Outcome(i).probability.num
       IN (/\ ret'.flow \in FlowIds
           /\ CalledSelect(ret', flow)
           /\ config_loaded
           /\ id \notin DOMAIN session_affinity
           /\ Len(candidates) >= 2)
          => /\ ret'.selected \in Range(candidates)
             /\ drawn.den > 0
             /\ drawn.num * sum = ret'.selected.weight * drawn.den
             /\ \A i \in 1..Len(candidates) :
                   \E s \in outcomes :
                      /\ s.selected = candidates[i]
                      /\ s.cache = With(session_affinity, id, candidates[i])
                      /\ s.probability.num > 0
                      /\ s.probability.num * sum = candidates[i].weight * s.probability.den
             /\ \A s \in outcomes : s.probability.den = up_to[Len(candidates)]
             /\ (/\ Len(candidates) = 2
                 /\ {candidates[1].weight, candidates[2].weight} = {1, 3}
                 /\ ret'.selected.weight = 3)
                => 4 * drawn.num = 3 * drawn.den]_vars

\* The request hook of the first flow served, to a.x:80, has drawn the
\* heavier proxy-b (weight 3), with probability 3/4, although proxy-h
\* (weight 1) matches as well, in a registry of six candidates whose weights
\* add up to 8.
C27_Witness ==
    /\ ret.op = "request" /\ ret.flow = 1
    /\ flows[2].stage = "new"
    /\ ret.selected # None /\ ret.selected.name = "proxy-b" /\ ret.selected.weight = 3
    /\ 4 * ret.probability.num = 3 * ret.probability.den
    /\ Len(Matching(flows[1])) = 2
    /\ Len(proxy_configs) = 6
    /\ total_weight(proxy_configs) = 8
    /\ \E p \in Range(Matching(flows[1])) : p.name = "proxy-h" /\ p.weight = 1

(* C28: after select was called for a flow on a loaded registry, the cache *)
(* entry under the flow's connection id is the upstream that was returned, *)
(* and there is none when nothing was returned; an upstream that was       *)
(* cached under the id and matches the flow by none of its rules is not    *)
(* returned and is no longer the entry.                                    *)
C28_CacheHoldsWhatWasReturned ==
    [][LET flow == flows'[ret'.flow]
           id == _get_connection_id(flow)
       IN (/\ ret'.flow \in FlowIds
           /\ CalledSelect(ret', flow)
           /\ config_loaded)
          => /\ IF ret'.selected = None
                THEN id \notin DOMAIN session_affinity'
                ELSE /\ id \in DOMAIN session_affinity'
                     /\ session_affinity'[id] = ret'.selected
             /\ (/\ id \in DOMAIN session_affinity
                 /\ ~_proxy_matches_rules(session_affinity[id], flow))
                => /\ ret'.selected # session_affinity[id]
                   /\ \/ id \notin DOMAIN session_affinity'
                      \/ session_affinity'[id] # session_affinity[id]]_vars

\* The first flow, a WebSocket to a.x:443, was routed through proxy-d by
\* its port rule; websocket_start of the second flow, to a.x:80 under the
\* same connection id, returned nothing and left no entry.
C28_Witness ==
    /\ ret.op = "websocket_start" /\ ret.flow = 2
    /\ config_loaded
    /\ ret.selected = None
    /\ flows[1].stage = "websocket" /\ flows[1].port = 443
    /\ flows[1].via # None /\ flows[1].via.host = "pd"
    /\ _get_connection_id(flows[1]) = _get_connection_id(flows[2])
    /\ _get_connection_id(flows[2]) \notin DOMAIN session_affinity

\* A delivery to the handshake in the given state left exactly two bytes in
\* the buffer the handler looked at.
TwoBytesBuffered(state) ==
    /\ tunnel_state = "establishing"
    /\ wire'.next # wire.next
    /\ layer.state = state
    /\ Len(layer.buf \o DeliveredBy(wire, wire')) = 2

\* What the delivery made the layer send.
SentBy == SubSeq(sent', Len(sent) + 1, Len(sent'))

\* The delivery reported an error; nothing was consumed or sent and the
\* state is the same.
DeliveryFailed ==
    /\ ~outcome'.done /\ outcome'.error # None /\ outcome'.raised = ""
    /\ SentBy = <<>>
    /\ layer'.state = layer.state
    /\ layer'.buf = layer.buf \o DeliveredBy(wire, wire')

\* The delivery consumed the two bytes, sent the message and moved on.
DeliveryMovedOn(message, state) ==
    /\ outcome' = NeedMoreData
    /\ layer'.buf = <<>>
    /\ SentBy = <<message>>
    /\ layer'.state = state

(* C29: in the greet state with two bytes buffered, a version other than 5 *)
(* is an error, method 255 is an error, method 0 consumes the two bytes,   *)
(* sends the connect request and enters the connect state, method 2 is an  *)
(* error with nothing sent when the username or the password is missing or *)
(* empty and otherwise consumes the two bytes, sends 01, the username with *)
(* its length, the password with its length, and enters the auth state;    *)
(* every other method is an error.                                         *)
C29_GreetingResponse ==
    [][TwoBytesBuffered("greet") =>
         LET buf == layer.buf \o DeliveredBy(wire, wire')
         IN IF buf[1] # 5 THEN DeliveryFailed
            ELSE IF buf[2] = 0
            THEN DeliveryMovedOn(_send_connect_request(target), "connect")
            ELSE IF buf[2] = 2 /\ CredentialsConfigured
            THEN DeliveryMovedOn(<<1, Len(layer.username)>> \o Encode(layer.username)
                                     \o <<Len(layer.password)>> \o Encode(layer.password),
                                 "auth")
            ELSE DeliveryFailed]_vars

\* The server chose method 2, delivered in two pieces, and the layer made
\* for "user" and "pw" has sent its greeting and the authentication request.
C29_Witness ==
    /\ tunnel_state = "establishing"
    /\ Delivered(wire) = <<5, 2>>
    /\ entry.deliveries = 2
    /\ layer.state = "auth" /\ layer.buf = <<>>
    /\ sent = << <<5, 2, 0, 2>>, <<1, 4, 117, 115, 101, 114, 2, 112, 119>> >>
    /\ outcome = NeedMoreData

(* C30: in the auth state with two bytes buffered, a subnegotiation        *)
(* version other than 1 is an error, a status other than 0 is the error    *)
(* "authentication failed with status" naming that status, and status 0    *)
(* consumes the two bytes, sends the connect request and enters the        *)
(* connect state.                                                          *)
C30_AuthenticationResponse ==
    [][TwoBytesBuffered("auth") =>
         LET buf == layer.buf \o DeliveredBy(wire, wire')
         IN IF buf[1] # 1 THEN DeliveryFailed
            ELSE IF buf[2] # 0
            THEN /\ DeliveryFailed
                 /\ outcome'.error.text = "SOCKS5 authentication failed with status: {status}"
                 /\ outcome'.error.value = buf[2]
            ELSE DeliveryMovedOn(_send_connect_request(target), "connect")]_vars

\* The server answered the authentication request with status 255: the
\* layer reports that status and stays in the auth state, nothing sent
\* after the authentication request.
C30_Witness ==
    /\ tunnel_state = "establishing"
    /\ Delivered(wire) = <<5, 2, 1, 255>>
    /\ layer.state = "auth" /\ layer.buf = <<1, 255>>
    /\ Len(sent) = 2
    /\ ~outcome.done /\ outcome.error # None
    /\ outcome.error.value = 255

\* How many of the payloads are the given request.
Occurrences(payloads, request) ==
    Cardinality({i \in 1..Len(payloads) : payloads[i] = request})

(* C31: the layer's state changes only from greet to auth, from greet to   *)
(* connect and from auth to connect, and not at all once an error was      *)
(* reported; the tunnel opens only from the connect state; auth is entered *)
(* only on a greeting response 05 02; the connect request is sent by the   *)
(* delivery that enters the connect state and by no other, so it has been  *)
(* sent once in the connect state and not at all before.                   *)
C31_StateOnlyAdvances ==
    [][LET request == _send_connect_request(target)
       IN /\ layer'.state # layer.state =>
                /\ <<layer.state, layer'.state>> \in
                       {<<"greet", "auth">>, <<"greet", "connect">>, <<"auth", "connect">>}
                /\ ~failed
                /\ SentBy = IF layer'.state = "connect"
                            THEN <<request>>
                            ELSE <<_send_authentication(layer.username, layer.password)>>
          /\ (tunnel_state' = "open" /\ tunnel_state # "open") =>
                /\ tunnel_state = "establishing"
                /\ layer.state = "connect" /\ layer'.state = "connect"
          /\ (layer'.state = "auth" /\ layer.state # "auth") =>
                LET buf == layer.buf \o DeliveredBy(wire, wire')
                IN buf[1] = 5 /\ buf[2] = SOCKS5_METHOD_USER_PASSWORD_AUTHENTICATION
          /\ (layer'.state = layer.state /\ sent # <<>>) => SentBy = <<>>
          /\ sent' # sent =>
                Occurrences(sent', request) = IF layer'.state = "connect" THEN 1 ELSE 0]_vars

\* A handshake with authentication has reached the open tunnel: greeting,
\* authentication request and connect request were sent, in this order.
C31_Witness ==
    /\ tunnel_state = "open"
    /\ layer.state = "connect"
    /\ Len(sent) = 3
    /\ sent[1] = <<5, 2, 0, 2>>
    /\ sent[2] = <<1, 4, 117, 115, 101, 114, 2, 112, 119>>
    /\ sent[3] = _send_connect_request(target)
    /\ completions = 1 /\ ~failed

(* C32: every delivery to the handshake returns need-more-data, an error   *)
(* with a reason, or done; no exception escapes receive_handshake_data.    *)
C32_NoUnhandledError ==
    /\ outcome.raised = ""
    /\ \/ outcome = NeedMoreData
       \/ ~outcome.done /\ outcome.error # None
       \/ outcome.done /\ outcome.error = None

\* The layer's username or password does not fit a one-byte length.
Overlong ==
    /\ CredentialsConfigured
    /\ Len(layer.username) > 255 \/ Len(layer.password) > 255

(* C33: with a username or a password longer than 255 bytes, the delivery *)
(* that completes the greeting response 05 02 reports an error, sends      *)
(* nothing and does not enter the auth state; the layer is never in the    *)
(* auth state and every payload it sends is a greeting or a connect        *)
(* request (first byte 05), never an authentication request.               *)
C33_OverlongCredentialsRejected ==
    [][Overlong =>
         /\ layer'.state # "auth"
         /\ \A i \in 1..Len(sent') : sent'[i][1] = SOCKS5_VERSION
         /\ LET buf == layer.buf \o DeliveredBy(wire, wire')
            IN (/\ tunnel_state = "establishing" /\ wire'.next # wire.next
                /\ layer.state = "greet" /\ ~failed
                /\ Len(buf) >= 2
                /\ buf[1] = 5 /\ buf[2] = SOCKS5_METHOD_USER_PASSWORD_AUTHENTICATION)
               => /\ SentBy = <<>>
                  /\ outcome'.raised = ""
                  /\ ~outcome'.done /\ outcome'.error # None]_vars

(* C34: whatever loads, selects and teardown hooks came before, the        *)
(* upstream a call of _select_proxy returns is none, a candidate of the    *)
(* current registry or the current default.                                *)
C34_SelectedIsInRegistry ==
    [][LET flow == flows'[ret'.flow]
       IN (/\ ret'.flow \in FlowIds
           /\ CalledSelect(ret', flow)
           /\ ret' # ret
           /\ ret'.selected # None)
          => \/ ret'.selected \in Range(proxy_configs)
             \/ ret'.selected = default_proxy]_vars

\* The upstreams a call of _select_proxy for flow f can return in this state.
SelectableFor(f) ==
    {s.selected : s \in _select_proxy(proxy_configs, default_proxy, config_loaded,
                                      session_affinity, flows[f])}

(* C35: for a flow whose session is active, the websocket_end or           *)
(* client_disconnect hook of another flow leaves unchanged what            *)
(* _select_proxy returns for it.                                           *)
C35_OtherTeardownKeepsUpstream ==
    [][\A f \in ActiveSessions :
         (/\ ret'.op \in {"websocket_end", "client_disconnect"}
          /\ ret'.flow \in FlowIds \ {f}
          /\ flows'[ret'.flow].stage # flows[ret'.flow].stage)
         => SelectableFor(f)' = SelectableFor(f)]_vars

(* C36: a Proxy-Authorization header the http_connect_upstream hook writes *)
(* on a flow is built from the credentials of an upstream whose address is *)
(* the flow's routing target, server_conn.via.                             *)
C36_HeaderOfRoutingTarget ==
    [][\A f \in FlowIds :
          (/\ ConnectHookRan(f)
           /\ flows'[f].proxy_authorization # flows[f].proxy_authorization)
          => /\ flows'[f].via # None
             /\ \E upstream \in RoutedThrough(flows'[f].via) :
                   /\ Credentials(upstream) # None
                   /\ flows'[f].proxy_authorization =
                          BasicAuthHeader(Credentials(upstream))]_vars

\* The payload holds the part as a run of consecutive bytes.
Contains(payload, part) ==
    \E i \in 0..(Len(payload) - Len(part)) : SubSeq(payload, i + 1, i + Len(part)) = part

\* The payload holds the layer's username or its password.
CarriesCredentials(payload) ==
    \/ Truthy(layer.username) /\ Contains(payload, Encode(layer.username))
    \/ Truthy(layer.password) /\ Contains(payload, Encode(layer.password))

(* C37: at most one payload written to the tunnel connection holds the     *)
(* username or the password; it is the authentication request, written     *)
(* right after the greeting and only once the server's first two bytes     *)
(* were 05 02; after any other greeting response no payload holds them.    *)
C37_CredentialsOnlyInAuthentication ==
    LET carrying == {i \in 1..Len(sent) : CarriesCredentials(sent[i])}
        response == Delivered(wire)
    IN /\ Cardinality(carrying) <= 1
       /\ \A i \in carrying :
             /\ i = 2
             /\ CredentialsConfigured
             /\ sent[i] = _send_authentication(layer.username, layer.password)
             /\ Len(response) >= 2
             /\ response[1] = SOCKS5_VERSION
             /\ response[2] = SOCKS5_METHOD_USER_PASSWORD_AUTHENTICATION
       /\ (Len(response) >= 2 /\ <<response[1], response[2]>> # <<5, 2>>) => carrying = {}

\* The tunnel is open after a handshake that wrote the credentials once, in
\* the authentication request.
C37_Witness ==
    /\ tunnel_state = "open"
    /\ CredentialsConfigured
    /\ Len(sent) = 3
    /\ sent[2] = _send_authentication(layer.username, layer.password)
    /\ CarriesCredentials(sent[2])
    /\ ~CarriesCredentials(sent[1]) /\ ~CarriesCredentials(sent[3])

\* The server's script cut at the ends of its messages: the greeting response,
\* the authentication response when the layer authenticates, and the rest.
Steps(script, authenticates) ==
    IF authenticates /\ SubSeq(script, 1, 2) = <<5, 2>>
    THEN <<SubSeq(script, 1, 2), SubSeq(script, 3, 4), Drop(script, 5)>>
    ELSE <<SubSeq(script, 1, 2), Drop(script, 3)>>

\* The result of the last call when receive_handshake_data is called with one
\* part after the other, up to the first call that does not ask for more.
RECURSIVE DeliverEach(_, _, _)
DeliverEach(self, address, parts) ==
    LET e == receive_handshake_data(self, address, Head(parts))
    IN IF Len(parts) = 1 \/ e.result # NeedMoreData
       THEN e.result
       ELSE DeliverEach(e.layer, address, Tail(parts))

(* C38: once the server's whole byte stream has been delivered, in however *)
(* many deliveries, the handshake has ended as it ends when every response *)
(* arrives in a delivery of its own: the tunnel is open exactly when that  *)
(* exchange reports done, and a failure was reported exactly when that     *)
(* exchange reports one.                                                   *)
C38_CutIndependent ==
    (tunnel_state # "inactive" /\ Remaining(wire) = <<>>) =>
        LET stepwise == DeliverEach(Socks5UpstreamProxy(layer.username, layer.password),
                                    target, Steps(wire.script, CredentialsConfigured))
        IN /\ stepwise.done <=> tunnel_state = "open"
           /\ stepwise.error # None <=> failed

\* The delivered bytes that are neither in the receive buffer nor passed to
\* the upper layer: what the handlers removed as handshake responses.
Consumed ==
    SubSeq(Delivered(wire), 1, Len(Delivered(wire)) - Len(received) - Len(layer.buf))

\* The responses the handlers have removed by the time the layer is in its
\* state: none in greet, the greeting response in auth, the greeting and the
\* authentication response, if there was one, in connect.
ConsumedBeforeConnect ==
    CASE layer.state = "greet" -> <<>>
      [] layer.state = "auth" -> SubSeq(wire.script, 1, 2)
      [] OTHER -> SubSeq(wire.script, 1, IF Len(sent) = 3 THEN 4 ELSE 2)

(* C39: as long as no failure was reported, the bytes delivered so far are *)
(* the handshake responses the handlers consumed, then the bytes passed to *)
(* the upper layer, then the receive buffer; the consumed bytes are the    *)
(* whole responses of the steps already taken.                             *)
C39_DeliveredBytesAccounted ==
    (tunnel_state # "inactive" /\ ~failed) =>
        /\ Len(received) + Len(layer.buf) <= Len(Delivered(wire))
        /\ Delivered(wire) = Consumed \o received \o layer.buf
        /\ IF tunnel_state = "open"
           THEN /\ layer.buf = <<>>
                /\ \E r \in ConnectResponses : Consumed = ConsumedBeforeConnect \o r
           ELSE /\ received = <<>>
                /\ Consumed = ConsumedBeforeConnect

\* The tunnel is open after an authenticated handshake: four bytes of
\* greeting and authentication response and the connect response were
\* consumed, and the two bytes after them reached the upper layer.
C39_Witness ==
    /\ tunnel_state = "open"
    /\ ~failed
    /\ Len(sent) = 3
    /\ Remaining(wire) = <<>>
    /\ received = <<72, 84>>
    /\ Len(Consumed) = 4 + Len(AsRead(SuccessIPv4))
    /\ Delivered(wire) = Consumed \o received

(* C40: the request, http_connect_upstream and websocket_start hooks of a  *)
(* flow whose client connection is not in multiupstream mode select no     *)
(* upstream and leave the flow's routing target, its Proxy-Authorization   *)
(* header, its metadata and the session affinity cache as they were.       *)
C40_OtherModesUntouched ==
    [][\A f \in FlowIds :
          (/\ ~flows[f].multi
           /\ ret'.flow = f
           /\ ret'.op \in {"request", "http_connect_upstream", "websocket_start"})
          => /\ ret'.selected = None
             /\ ret'.address = None
             /\ chosen' = chosen
             /\ session_affinity' = session_affinity
             /\ flows'[f].via = flows[f].via
             /\ flows'[f].proxy_authorization = flows[f].proxy_authorization
             /\ flows'[f].socks5 = flows[f].socks5]_vars

\* The three hooks ran for a flow of another mode, on a loaded registry that
\* has a candidate matching it and with another flow's entry in the cache:
\* the flow is not routed and has no header, and the cache holds only the
\* other flow's entry.
C40_Witness ==
    /\ ret.op = "websocket_start"
    /\ ret.flow \in FlowIds
    /\ ~flows[ret.flow].multi
    /\ flows[ret.flow].stage = "websocket"
    /\ config_loaded
    /\ Matching(flows[ret.flow]) # <<>>
    /\ flows[ret.flow].via = None
    /\ flows[ret.flow].proxy_authorization = NoHeader
    /\ DOMAIN session_affinity = {_get_connection_id(flows[f]) : f \in FlowIds \ {ret.flow}}
    /\ \A f \in FlowIds \ {ret.flow} : flows[f].multi /\ flows[f].via # None

====
